---- MODULE Spec2Model ----
(***************************************************************************)
(* EasyCache (src/easycache.js of the package, kept here as                *)
(* src/unnamed/part_003): the cache engine as a state machine.             *)
(*                                                                         *)
(* Every public method is an async function.  The code between two awaits  *)
(* runs without interruption, so each action below is one such segment:    *)
(* "...Call" is the segment that runs when the method is called, the       *)
(* others resume a suspended call.  Suspended calls are the bag `tasks`.   *)
(* A backend operation takes effect when it is called (MemoryAdapter,      *)
(* src/adapters/memory.js) and the caller resumes in a later step.  The    *)
(* suspended calls resume in any order: the file, Redis and PostgreSQL     *)
(* adapters answer after real I/O, one round trip per backend call.        *)
(*                                                                         *)
(* The state space is explored in profiles (Spec, SpecTTL, SpecTag,        *)
(* SpecTagRace, SpecCond, SpecHas, SpecSlide, SpecTouch, SpecLoad,         *)
(* SpecLoadRace, SpecStorage, SpecFail, SpecTrip, SpecStats, SpecByTag,    *)
(* SpecDelTag, SpecDestroy, SpecTimers, SpecAccess): each fixes the        *)
(* options of the constructor and the arguments the application draws     *)
(* from (`env`).                                                           *)
(***************************************************************************)
EXTENDS Integers, Sequences, FiniteSets, Bags, TLC

\* ----------------------------------------------------------------- bounds
NumKeys == 3
NumTags == 2
NumValues == 2
MaxTime == 2
MaxOps == 4
MaxInflight == 2
SlideTTL == 1

Keys == 1..NumKeys
Tags == 1..NumTags
NoKey == 0

\* The ttl argument `null` (also what an omitted argument defaults to).
NullTTL == -1

\* ------------------------------------------------------------- JS values
Undef == [t |-> "undefined", x |-> 0]
Null == [t |-> "null", x |-> 0]
Val(n) == [t |-> "value", x |-> n]
This == [t |-> "this", x |-> 0]
False == [t |-> "boolean", x |-> 0]
True == [t |-> "boolean", x |-> 1]
Values == {Val(n) : n \in 1..NumValues}

\* The JSON text of a value is another datum than the value, what is parsed
\* from it is a plain value or null, and JSON.stringify(undefined) is
\* undefined.
Stringify(v) == IF v = Undef THEN v ELSE [t |-> "json", x |-> v.x]
Parse(s) == IF s.x = 0 THEN Null ELSE [t |-> "value", x |-> s.x]

\* --------------------------------------------------------------- helpers
EmptyMap == [x \in {} |-> 0]
Put(f, k, v) == [x \in (DOMAIN f) \cup {k} |-> IF x = k THEN v ELSE f[x]]
Drop(f, k) == [x \in (DOMAIN f) \ {k} |-> f[x]]
Range(s) == {s[i] : i \in DOMAIN s}
Without(s, k) == SelectSeq(s, LAMBDA x : x # k)

\* An insertion-ordered Map as a sequence of <<key, value>> pairs.
OMHas(m, k) == \E i \in DOMAIN m : m[i][1] = k
OMGet(m, k) == LET i == CHOOSE j \in DOMAIN m : m[j][1] = k IN m[i][2]
OMSet(m, k, v) ==
    IF OMHas(m, k)
    THEN [i \in DOMAIN m |-> IF m[i][1] = k THEN <<k, v>> ELSE m[i]]
    ELSE Append(m, <<k, v>>)
OMDelete(m, k) == SelectSeq(m, LAMBDA p : p[1] # k)
OMKeys(m) == {m[i][1] : i \in DOMAIN m}

VARIABLES
    options,      \* this.options (fixed at construction)
    env,          \* the arguments the callers draw from
    cache,        \* this.cache: key -> {createdAt, expiresAt, accessCount, tags}
    accessOrder,  \* this.accessOrder: ordered map key -> last access time
    tagsMap,      \* this.tagsMap: tag -> ordered set of keys
    timers,       \* this.timers: key -> timeout handle
    armed,        \* the timeouts pending in the event loop (a bag)
    storage,      \* MemoryAdapter.store: key -> serialized value
    stats,        \* this.stats
    tasks,        \* the suspended calls (a bag of task records)
    now,          \* Date.now()
    issued,       \* number of calls made so far by the application
    emitted,      \* the events emitted by the last step, in order
    returned,     \* the call the last step completed, with its result
    promised,     \* key -> the expiry its last undisturbed set() gave it
    touched,      \* key -> the expiry its last undisturbed touch() gave it
    loads,        \* number of times the loader of getOrSet has been invoked
    setLog,       \* the keys set so far, while the calls were sets made in turn
    written,      \* key -> the value its last undisturbed set() wrote
    adapter,      \* this.storage: what the constructor made of options.storage
    broken,       \* whether and how the calls of the backend fail
    sweep,        \* this.cleanupInterval is running
    destroyed,    \* destroy() has completed
    outcomes      \* the gets completed since the last reset: with a value, without

vars == <<options, env, cache, accessOrder, tagsMap, timers, armed, storage,
          stats, tasks, now, issued, emitted, returned, promised, touched, loads,
          setLog, written, adapter, broken, sweep, destroyed, outcomes>>

\* options.serialize and options.deserialize (part_003:173-174), a pair the
\* application may replace.  "json": JSON.stringify and JSON.parse, the
\* default.  "same": both hand their argument on (values kept as they
\* are).  "sentinel": the JSON pair, but null is stored as undefined and
\* undefined is read as null.
Codecs == {"json", "same", "sentinel"}
Serialize(v) ==
    CASE options.codec = "same" -> v
      [] options.codec = "sentinel" /\ v = Null -> Undef
      [] OTHER -> Stringify(v)
Deserialize(s) ==
    CASE options.codec = "same" -> s
      [] options.codec = "sentinel" /\ s = Undef -> Null
      [] OTHER -> Parse(s)

\* ----------------------------------------------------------- data shapes
Item(created, expires, tags) ==
    [createdAt |-> created, expiresAt |-> expires, accessCount |-> 0, tags |-> tags]
NoItem == [createdAt |-> -1, expiresAt |-> -1, accessCount |-> 0, tags |-> <<>>]
\* expiresAt: null  (item.expiresAt is then falsy)
NoExpiry == -1

Timer(k, due, kind, v) == [key |-> k, due |-> due, kind |-> kind, val |-> v]

Ev(e, k, v) == [e |-> e, k |-> k, v |-> v]

\* What a call returned: r, and for a result object (r = Object) obj, the
\* map from its property names to their values.
Object == [t |-> "object", x |-> 0]
NoReturn == [op |-> "none", k |-> NoKey, r |-> Undef, obj |-> EmptyMap]
Ret(op, k, r) == [op |-> op, k |-> k, r |-> r, obj |-> EmptyMap]
RetObject(op, k, o) == [op |-> op, k |-> k, r |-> Object, obj |-> o]

\* Bookkeeping for the statistics property, not state of the program: how
\* many get() calls have returned a value and how many undefined.
NoOutcomes == [hits |-> 0, misses |-> 0]

ZeroStats == [hits |-> 0, misses |-> 0, sets |-> 0, deletes |-> 0, evictions |-> 0,
              totalAccesses |-> 0, totalExpired |-> 0]

\* A suspended call.  op: the outermost async function; pc: where it waits;
\* kind: the timer that runs the callback, or the loader of a getOrSet;
\* dk, dtags, dval: the locals of the delete() it is inside of, if any;
\* had: whether the key of a set() had an entry when set was called;
\* found: the answer of the backend to the storage.has(key) of a has();
\* err: the backend call it waits for has failed; tag, seen, res: the tag
\* of a getByTag or deleteByTag, the keys its loop has visited and its
\* result object; at, want: bookkeeping of the properties (when getByTag or
\* deleteByTag was called, and what the state then promised).
NoTask ==
    [op |-> "none", pc |-> "none", key |-> NoKey, val |-> Undef, ttl |-> 0,
     exp |-> NoExpiry, tags |-> <<>>, i |-> 0, dk |-> NoKey, dtags |-> <<>>,
     dval |-> Undef, kind |-> "none", item |-> NoItem, live |-> FALSE, eff |-> 0,
     lru |-> NoKey, solo |-> FALSE, had |-> FALSE, found |-> FALSE, err |-> FALSE,
     tag |-> 0, seen |-> {}, res |-> EmptyMap, at |-> 0, want |-> EmptyMap]

One(t) == SetToBag({t})

\* The engine state a code segment works on, and the events it emits.
St ==
    [cache |-> cache, accessOrder |-> accessOrder, tagsMap |-> tagsMap,
     timers |-> timers, armed |-> armed, storage |-> storage, stats |-> stats,
     tasks |-> tasks, emitted |-> <<>>, returned |-> NoReturn, promised |-> promised,
     touched |-> touched, loads |-> loads, written |-> written, sweep |-> sweep,
     destroyed |-> destroyed, outcomes |-> outcomes]

Commit(s) ==
    /\ cache' = s.cache
    /\ accessOrder' = s.accessOrder
    /\ tagsMap' = s.tagsMap
    /\ timers' = s.timers
    /\ armed' = s.armed
    /\ storage' = s.storage
    /\ stats' = s.stats
    /\ tasks' = s.tasks
    /\ emitted' = s.emitted
    /\ returned' = s.returned
    /\ promised' = s.promised
    /\ touched' = s.touched
    /\ loads' = s.loads
    /\ written' = s.written
    /\ sweep' = s.sweep
    /\ destroyed' = s.destroyed
    /\ outcomes' = s.outcomes

Emit(s, ev) == [s EXCEPT !.emitted = Append(@, ev)]
\* if (this.options.enableStats) this.stats.<c>++
Count(s, c) == IF options.enableStats THEN [s EXCEPT !.stats[c] = @ + 1] ELSE s
Suspend(s, t) == [s EXCEPT !.tasks = @ (+) One(t)]
Resume(s, t) == [s EXCEPT !.tasks = @ (-) One(t)]
Return(s, op, k, r) == [s EXCEPT !.returned = Ret(op, k, r)]

StorageGet(st, k) == IF k \in DOMAIN st THEN st[k] ELSE Undef
StorageHas(st, k) == k \in DOMAIN st

\* The failures of a backend.  "down": every call of the adapter rejects
\* and has done nothing (an adapter that cannot reach its server).
\* "unsaved": a writing call rejects after it has changed the store of the
\* adapter, and reads answer (FileAdapter and JsonAdapter when the file
\* cannot be written: src/adapters/file.js:25-35, 42-61).
ReadFails == broken = "down"
WriteFails == broken # "no"
WriteApplies == broken # "down"

\* The result of a call that threw.
Raised == [t |-> "throw", x |-> 0]

\* An exception leaves the async function that task t runs for: a call of
\* the application rejects; in a timeout callback or an un-awaited delete
\* it is an unhandled rejection and the task ends; in a delete of
\* deleteMultiple it rejects the Promise.all that deleteByTag waits for.
Raise(s, t) ==
    CASE t.op \in {"evict", "expire", "timer"} -> s
      [] t.op = "each" ->
             LET F(u) == IF u.op = "deleteByTag" /\ u.tag = t.tag
                         THEN [u EXCEPT !.err = TRUE] ELSE u
             IN [s EXCEPT !.tasks = BagOfAll(F, @)]
      [] OTHER -> Return(s, t.op, t.key, Raised)

\* `this.emit('error', error)` in a catch block.  EasyCache is an
\* EventEmitter (part_003:158-161): with no listener for 'error' emit
\* throws the error.
\* destroy() ends with removeAllListeners() (part_003:844).
Listening == ~destroyed /\ env.onError
ErrorEv(k) == [e |-> "error", k |-> k, v |-> Undef]

\* clearTimeout(h): the timeout h, if still pending, is cancelled.
ClearTimeout(a, h) == IF BagIn(h, a) THEN a (-) One(h) ELSE a

\* A get() suspended at its backend read holds a reference to the item
\* object it found.  When this.cache drops or replaces the entries of keys
\* `ks`, that object is no longer the one in the map: the task keeps a copy.
DetachOne(c, ks, t) ==
    IF t.pc = "read" /\ t.live /\ t.key \in ks
       /\ t.key \in DOMAIN c
    THEN [t EXCEPT !.live = FALSE, !.item = c[t.key]]
    ELSE t
Detach(s, ks) ==
    LET c == s.cache
        F(t) == DetachOne(c, ks, t)
    IN [s EXCEPT !.tasks = BagOfAll(F, @)]

\* Bookkeeping for the TTL property, not state of the program.  promised[k]
\* is the expiresAt that the last completed set(k) computed, kept while the
\* application has done nothing else to k: no overlapping or later set,
\* touch, delete, clear, eviction or sliding renewal of k.  A set task is
\* `solo` while no such operation has met it.  touched[k] is the same for
\* the expiresAt that the last touch(k, ttl) computed, written[k] for the
\* value that the last completed set(k) was given.
Disturb(s, ks) ==
    LET F(t) == IF t.op = "set" /\ t.key \in ks THEN [t EXCEPT !.solo = FALSE] ELSE t
    IN [s EXCEPT !.promised = [k \in (DOMAIN @) \ ks |-> @[k]],
                 !.touched = [k \in (DOMAIN @) \ ks |-> @[k]],
                 !.written = [k \in (DOMAIN @) \ ks |-> @[k]],
                 !.tasks = BagOfAll(F, @)]

Busy(s, k) ==
    \E t \in BagToSet(s.tasks) :
        \/ t.op \in {"set", "get", "has", "delete", "evict", "expire", "getOrSet",
                     "getByTag", "each"}
           /\ t.key = k
        \/ t.op = "set" /\ t.dk = k /\ t.pc \in {"dget", "ddel"}
        \/ t.op = "clear"

\* ------------------------------------------------------------- delete(key)
\* part_003:482-492 (and 250-259): drop `k` from the key set of every tag of
\* `tgs`, and drop a tag whose set became empty.
UntagKey(tm, k, tgs) ==
    LET hit == {tg \in DOMAIN tm : tg \in Range(tgs)}
        left == [tg \in DOMAIN tm |-> IF tg \in hit THEN Without(tm[tg], k) ELSE tm[tg]]
    IN [tg \in {x \in DOMAIN tm : ~(x \in hit /\ left[x] = <<>>)} |-> left[tg]]

\* delete(k) called by the code of task t, up to its first await
\* (part_003:461-469).  A key with no entry makes delete return at once; a
\* caller that awaits it then resumes in a later step (pc "dret").  The
\* tasks "delete", "evict" (_evictLRU), "expire" (the timeout of touch) and
\* "each" (deleteMultiple) are the delete itself.  A failure of the backend
\* read is ignored and leaves `value` null (part_003:468-472).
DeleteEnter(s, t, k) ==
    IF k \in DOMAIN s.cache
    THEN Suspend(s, [t EXCEPT !.pc = "dget", !.dk = k, !.dtags = s.cache[k].tags,
                              !.dval = IF ReadFails THEN Null
                                       ELSE StorageGet(s.storage, k)])
    ELSE IF t.op \in {"delete", "evict", "expire", "each"}
         THEN s
         ELSE Suspend(s, [t EXCEPT !.pc = "dret", !.dk = k])

\* part_003:475: after the backend read, `await this.storage.delete(key)`.
DeleteGotBody(s, t) ==
    Suspend(IF WriteApplies THEN [s EXCEPT !.storage = Drop(@, t.dk)] ELSE s,
            [t EXCEPT !.pc = "ddel", !.err = WriteFails])

\* part_003:506, 509: the delete() that task t is inside of returns `this`.
DeleteReturn(s, t) ==
    CASE t.op = "delete" -> Return(s, "delete", t.dk, This)
      [] t.op \in {"evict", "expire", "each"} -> s
      [] OTHER -> Suspend(s, [t EXCEPT !.pc = "dret", !.err = FALSE])

\* part_003:507-510: the backend delete has failed.
DeleteCatch(s, t) ==
    IF Listening THEN DeleteReturn(Emit(s, ErrorEv(t.dk)), t) ELSE Raise(s, t)

\* part_003:477-506: after the backend delete.
DeleteDoneBody(s, t) ==
    LET k == t.dk
        s1 == Detach(s, {k})
        s2 == [s1 EXCEPT !.cache = Drop(@, k),
                         !.accessOrder = OMDelete(@, k),
                         !.tagsMap = UntagKey(@, k, t.dtags),
                         !.armed = IF k \in DOMAIN s.timers
                                   THEN ClearTimeout(@, s.timers[k]) ELSE @,
                         !.timers = Drop(@, k)]
        s3 == Emit(Count(s2, "deletes"), Ev("delete", k, t.dval))
    IN IF t.err THEN DeleteCatch(s, t) ELSE DeleteReturn(s3, t)

\* ---------------------------------------------------------------- _evictLRU
\* A variant of the scan below in which the last of several equally old
\* entries wins (`<=` for `<`).
RECURSIVE OldestScanLastWins(_, _, _)
OldestScanLastWins(ao, i, best) ==
    IF i > Len(ao) THEN best[1]
    ELSE IF best[1] = NoKey \/ ao[i][2] <= best[2]
         THEN OldestScanLastWins(ao, i + 1, ao[i])
         ELSE OldestScanLastWins(ao, i + 1, best)

\* part_003:786-794: the scan for the oldest entry of accessOrder.  `best`
\* is <<oldestKey, oldestTime>>; oldestKey = NoKey stands for the initial
\* oldestTime = Infinity.
RECURSIVE OldestScan(_, _, _)
OldestScan(ao, i, best) ==
    IF i > Len(ao) THEN best[1]
    ELSE IF best[1] = NoKey \/ ao[i][2] < best[2]
         THEN OldestScan(ao, i + 1, ao[i])
         ELSE OldestScan(ao, i + 1, best)

OldestKey(ao) == OldestScan(ao, 1, <<NoKey, 0>>)

\* part_003:782-802.  delete(oldestKey) is called and not awaited: it runs
\* on as a task of its own; the counter and the event do not wait for it.
EvictLRU(s) ==
    IF Len(s.accessOrder) = 0 THEN s
    ELSE LET victim == OldestKey(s.accessOrder)
             s1 == DeleteEnter(Disturb(s, {victim}),
                               [NoTask EXCEPT !.op = "evict", !.key = victim], victim)
             s2 == [s1 EXCEPT !.stats.evictions = @ + 1]
         IN Emit(s2, Ev("evicted", victim, Undef))

\* -------------------------------------------------------------------- set
\* The condition argument: null, or a predicate over (key, value).
CondHolds(c, k, v) ==
    CASE c = "always" -> TRUE
      [] c = "never" -> FALSE
      [] c = "first" -> v.x = 1
      [] OTHER -> TRUE

\* A variant of the resolution below that takes the default for 0 as well
\* (`ttl || defaultTTL`).
EffectiveTTLOrDefault(ttl) == IF ttl # NullTTL /\ ttl # 0 THEN ttl ELSE options.defaultTTL

\* A variant of the test below that lost its negation.
RejectedWhenTrue(c, k, v) == c # "none" /\ CondHolds(c, k, v)

\* part_003:244: `condition && !condition(key, value)`.
Rejected(c, k, v) == c # "none" /\ ~CondHolds(c, k, v)

\* part_003:274.
EffectiveTTL(ttl) == IF ttl # NullTTL THEN ttl ELSE options.defaultTTL
\* part_003:275.
ExpiresAt(eff) == IF eff > 0 THEN now + eff ELSE NoExpiry

\* part_003:267-278: from the timer reset to the backend write.
StoreCall(s, t) ==
    LET k == t.key
        eff == EffectiveTTL(t.ttl)
        s1 == IF k \in DOMAIN s.timers
              THEN [s EXCEPT !.armed = ClearTimeout(@, s.timers[k]), !.timers = Drop(@, k)]
              ELSE s
        s2 == IF WriteApplies
              THEN [s1 EXCEPT !.storage = Put(@, k, Serialize(t.val))]
              ELSE s1
    IN Suspend(s2, [t EXCEPT !.pc = "store", !.eff = eff, !.exp = ExpiresAt(eff),
                             !.err = WriteFails])

\* A variant of the capacity test below without its `!this.cache.has(key)`.
NeedsEvictionAnyKey(s, k) == Cardinality(DOMAIN s.cache) >= options.maxSize

\* part_003:263.
NeedsEviction(s, k) ==
    Cardinality(DOMAIN s.cache) >= options.maxSize /\ k \notin DOMAIN s.cache

\* part_003:248-278, after the condition passed.
SetEnter(s, t) ==
    LET k == t.key
        s1 == IF k \in DOMAIN s.cache /\ Len(s.cache[k].tags) > 0
              THEN [s EXCEPT !.tagsMap = UntagKey(@, k, s.cache[k].tags)]
              ELSE s
    IN IF NeedsEviction(s1, k)
       THEN Suspend(EvictLRU(s1), [t EXCEPT !.pc = "evicted",
                                            !.lru = OldestKey(s1.accessOrder)])
       ELSE StoreCall(s1, t)

\* The set() that task t is inside of resolves with r: a set call of the
\* application returns; a getOrSet resumes in a later step (part_003:607).
SetReturn(s, t, r) ==
    IF t.op = "getOrSet"
    THEN Suspend(s, [t EXCEPT !.pc = "setdone"])
    ELSE Return(s, "set", t.key, r)

\* part_003:323-340.
SetFinish(s, t) ==
    LET h == Timer(t.key, now + t.eff, "set", t.val)
        s1 == IF t.eff > 0
              THEN [s EXCEPT !.armed = @ (+) One(h), !.timers = Put(@, t.key, h)]
              ELSE s
        s2 == IF t.solo
              THEN [s1 EXCEPT !.promised = Put(@, t.key, t.exp),
                              !.written = Put(@, t.key, t.val)]
              ELSE s1
    IN SetReturn(Emit(Count(s2, "sets"), Ev("set", t.key, t.val)), t, This)

\* part_003:302-311: the least recently used key among those of a tag.
RECURSIVE OldestTaggedScan(_, _, _, _, _)
OldestTaggedScan(ks, c, ao, i, best) ==
    IF i > Len(ks) THEN best[1]
    ELSE IF ks[i] \in DOMAIN c /\ OMHas(ao, ks[i])
            /\ (best[1] = NoKey \/ OMGet(ao, ks[i]) < best[2])
         THEN OldestTaggedScan(ks, c, ao, i + 1, <<ks[i], OMGet(ao, ks[i])>>)
         ELSE OldestTaggedScan(ks, c, ao, i + 1, best)

OldestTaggedKey(ks, c, ao) == OldestTaggedScan(ks, c, ao, 1, <<NoKey, 0>>)

\* part_003:300.
OverTagLimit(tm, tag) ==
    options.maxEntriesPerTag[tag] # 0 /\ Len(tm[tag]) > options.maxEntriesPerTag[tag]

\* part_003:292-321: the loop over the new tags, from the i-th, up to its
\* first `await this.delete(oldestTaggedKey)` or its end.
RECURSIVE TagLoop(_, _, _)
TagLoop(s, t, i) ==
    IF i > Len(t.tags) THEN SetFinish(s, t)
    ELSE LET tag == t.tags[i]
             old == IF tag \in DOMAIN s.tagsMap THEN s.tagsMap[tag] ELSE <<>>
             new == IF t.key \in Range(old) THEN old ELSE Append(old, t.key)
             s1 == [s EXCEPT !.tagsMap = Put(@, tag, new)]
             victim == OldestTaggedKey(new, s1.cache, s1.accessOrder)
         IN IF OverTagLimit(s1.tagsMap, tag) /\ victim # NoKey
            THEN DeleteEnter(Disturb(s1, {victim}),
                             [t EXCEPT !.i = i, !.solo = @ /\ victim # t.key], victim)
            ELSE TagLoop(s1, t, i + 1)

\* part_003:341-344: the backend write has failed.
SetCatch(s, t) ==
    IF Listening
    THEN SetReturn(Emit(s, ErrorEv(t.key)), [t EXCEPT !.err = FALSE], This)
    ELSE Raise(s, t)

\* part_003:280-340: after the backend write.
SetStoredBody(s, t) ==
    LET k == t.key
        s1 == Detach(s, {k})
        s2 == [s1 EXCEPT !.cache = Put(@, k, Item(now, t.exp, t.tags)),
                         !.accessOrder = OMSet(@, k, now)]
    IN IF t.err THEN SetCatch(s, t) ELSE TagLoop(s2, t, 1)

\* part_003:315-321: after the awaited delete of a tag's victim.
SetTagEvictedBody(s, t) ==
    TagLoop(Emit(Count(s, "evictions"), Ev("evicted", t.dk, Null)), t, t.i + 1)

\* -------------------------------------------------------------------- get
\* part_003:367.
IsExpired(item) == item.expiresAt # NoExpiry /\ now > item.expiresAt

\* The get() that task t is inside of resolves with r: a get call of the
\* application returns; a getOrSet or getByTag resumes in a later step
\* (part_003:603, 683).
GetReturn(s, t, r) ==
    LET which == IF r = Undef THEN "misses" ELSE "hits"
        s1 == [s EXCEPT !.outcomes[which] = @ + 1]
    IN CASE t.op = "getOrSet" -> Suspend(s1, [t EXCEPT !.pc = "got", !.val = r])
         [] t.op = "getByTag" -> Suspend(s1, [t EXCEPT !.pc = "tgot", !.val = r])
         [] OTHER -> Return(s1, "get", t.key, r)

\* part_003:353-376: get(t.key) called by the code of task t, up to the
\* backend read (or the lazy delete).
GetEnter(s, t) ==
    LET k == t.key
        s0 == Count(IF options.slidingTTL THEN Disturb(s, {k}) ELSE s, "totalAccesses")
    IN IF k \notin DOMAIN s0.cache
       THEN GetReturn(Count(s0, "misses"), t, Undef)
       ELSE IF IsExpired(s0.cache[k])
            THEN DeleteEnter(s0, t, k)
            ELSE Suspend(s0, [t EXCEPT !.pc = "read", !.live = TRUE, !.err = ReadFails,
                                       !.val = IF ReadFails THEN Undef
                                                ELSE StorageGet(s0.storage, k)])

\* A variant of the continuation below that does not count the miss.
GetExpiredUncounted(s, t) == GetReturn(s, t, Undef)

\* A variant of the continuation below that announces the expiration, as
\* the timeout callbacks do.
GetExpiredAnnounced(s, t) ==
    GetReturn(Emit(Count(s, "misses"), Ev("expired", t.key, Undef)), t, Undef)

\* part_003:369-372: after the awaited lazy delete.
GetExpiredBody(s, t) == GetReturn(Count(s, "misses"), t, Undef)

\* A variant of the purge below that forgets the accessOrder entry.
GetPurgeMetadataOnly(s, t) ==
    LET s1 == Detach(s, {t.key})
    IN GetReturn(Count([s1 EXCEPT !.cache = Drop(@, t.key)], "misses"), t, Undef)

\* part_003:380-387: the backend has no value.
GetPurge(s, t) ==
    LET s1 == Detach(s, {t.key})
        s2 == [s1 EXCEPT !.cache = Drop(@, t.key), !.accessOrder = OMDelete(@, t.key)]
    IN GetReturn(Count(s2, "misses"), t, Undef)

\* part_003:394-408: the sliding renewal.  `item` is the object get found
\* before its await: the entry of the map if it is still that object.
Slide(s, t, item, value) ==
    LET currentTTL == item.expiresAt - item.createdAt
        h == Timer(t.key, now + (IF currentTTL > 0 THEN currentTTL ELSE 0), "get", value)
        s1 == IF t.live THEN [s EXCEPT !.cache[t.key].expiresAt = now + currentTTL] ELSE s
        s2 == IF t.key \in DOMAIN s1.timers
              THEN [s1 EXCEPT !.armed = ClearTimeout(@, s1.timers[t.key])]
              ELSE s1
    IN [s2 EXCEPT !.armed = @ (+) One(h), !.timers = Put(@, t.key, h)]

\* A variant of the hit below that hands on what the backend returned
\* without deserializing it.
GetHitRaw(s, t) ==
    LET s1 == IF t.live THEN [s EXCEPT !.cache[t.key].accessCount = @ + 1] ELSE s
        s2 == [s1 EXCEPT !.accessOrder = OMSet(@, t.key, now)]
    IN GetReturn(Emit(Count(s2, "hits"), Ev("get", t.key, t.val)), t, t.val)

\* part_003:376-379, 390-415: a hit.
GetHit(s, t) ==
    LET value == Deserialize(t.val)
        item == IF t.live THEN s.cache[t.key] ELSE t.item
        s1 == IF t.live THEN [s EXCEPT !.cache[t.key].accessCount = @ + 1] ELSE s
        s2 == [s1 EXCEPT !.accessOrder = OMSet(@, t.key, now)]
        s3 == IF options.slidingTTL /\ item.expiresAt # NoExpiry
              THEN Slide(s2, t, item, value)
              ELSE s2
    IN GetReturn(Emit(Count(s3, "hits"), Ev("get", t.key, value)), t, value)

\* part_003:416-422: the backend read has failed.
GetCatch(s, t) ==
    IF Listening
    THEN GetReturn(Count(Emit(s, ErrorEv(t.key)), "misses"), [t EXCEPT !.err = FALSE], Undef)
    ELSE Raise(s, t)

\* part_003:376-415: after the backend read.
GetReadBody(s, t) ==
    IF t.err THEN GetCatch(s, t)
    ELSE IF t.val = Undef THEN GetPurge(s, t) ELSE GetHit(s, t)

\* -------------------------------------------------------------------- has
\* A variant of the entry of has below that counts the call as an access,
\* as get does.
HasEnterCounting(s, k) ==
    LET t == [NoTask EXCEPT !.op = "has", !.key = k]
        s0 == Count(s, "totalAccesses")
    IN IF k \notin DOMAIN s0.cache
       THEN Return(s0, "has", k, False)
       ELSE IF IsExpired(s0.cache[k])
            THEN DeleteEnter(s0, t, k)
            ELSE Suspend(s0, [t EXCEPT !.pc = "hread",
                                       !.found = StorageHas(s0.storage, k)])

\* part_003:430-442: up to the backend call (or the lazy delete).
HasEnter(s, k) ==
    LET t == [NoTask EXCEPT !.op = "has", !.key = k]
    IN IF k \notin DOMAIN s.cache
       THEN Return(s, "has", k, False)
       ELSE IF IsExpired(s.cache[k])
            THEN DeleteEnter(s, t, k)
            ELSE Suspend(s, [t EXCEPT !.pc = "hread", !.err = ReadFails,
                                      !.found = ~ReadFails /\ StorageHas(s.storage, k)])

\* part_003:436-437: after the awaited lazy delete.
HasExpiredBody(s, t) == Return(s, "has", t.key, False)

\* A variant of the continuation below that trusts the metadata and does
\* not look at the answer of the backend.
HasReadTrusting(s, t) == Return(s, "has", t.key, True)

\* part_003:450-452: the backend call has failed; nothing is emitted.
HasCatch(s, t) == Return(s, "has", t.key, False)

\* part_003:442-449: after `await this.storage.has(key)`.
HasReadBody(s, t) ==
    IF t.err THEN HasCatch(s, t)
    ELSE IF t.found
    THEN Return(s, "has", t.key, True)
    ELSE LET s1 == Detach(s, {t.key})
         IN Return([s1 EXCEPT !.cache = Drop(@, t.key),
                              !.accessOrder = OMDelete(@, t.key)],
                   "has", t.key, False)

\* --------------------------------------------------------------- getOrSet
\* The value the loader of kind `ld` returns at its n-th invocation:
\* `result_<n>` (test/easycache.test.js:70-73), undefined (a lookup that
\* finds nothing), or a Date, which JSON does not give back as it was.
LoaderValue(ld, n) ==
    CASE ld = "counting" -> Val(n)
      [] ld = "nothing" -> Undef
      [] OTHER -> [t |-> "date", x |-> n]

\* A variant of the continuation below that calls the loader whatever get
\* has returned.
GosGotAlwaysLoading(s, t) ==
    Suspend([s EXCEPT !.loads = @ + 1],
            [t EXCEPT !.pc = "loaded", !.val = LoaderValue(t.kind, s.loads + 1)])

\* A variant of the continuation below with a single flight per key: a
\* miss waits for the value of a load of the same key that is under way.
GosGotSingleFlight(s, t) ==
    IF t.val # Undef
    THEN Return(s, "getOrSet", t.key, t.val)
    ELSE IF \E u \in BagToSet(s.tasks) :
                u.op = "getOrSet" /\ u.key = t.key /\ u.pc \in {"loaded", "store", "setdone"}
         THEN LET u == CHOOSE u \in BagToSet(s.tasks) :
                           u.op = "getOrSet" /\ u.key = t.key
                           /\ u.pc \in {"loaded", "store", "setdone"}
              IN Suspend(s, [t EXCEPT !.pc = "setdone", !.val = u.val])
         ELSE Suspend([s EXCEPT !.loads = @ + 1],
                      [t EXCEPT !.pc = "loaded", !.val = LoaderValue(t.kind, s.loads + 1)])

\* part_003:603-610: after `await this.get(key)`.  On a miss the loader is
\* called and its result awaited.
GosGotBody(s, t) ==
    IF t.val = Undef
    THEN Suspend([s EXCEPT !.loads = @ + 1],
                 [t EXCEPT !.pc = "loaded", !.val = LoaderValue(t.kind, s.loads + 1)])
    ELSE Return(s, "getOrSet", t.key, t.val)

\* part_003:607: after `await fn(loaderOptions)`, set(key, value, ttl) is
\* called with no tags and no condition.
GosLoadedBody(s, t) == SetEnter(Disturb(s, {t.key}), [t EXCEPT !.tags = <<>>])

\* part_003:610: after `await this.set(...)`.
GosSetDoneBody(s, t) == Return(s, "getOrSet", t.key, t.val)

\* --------------------------------------------------------------- getByTag
\* The keys of a tag, in the order of the Set; none for a tag without entry.
KeysForTag(tm, tag) == IF tag \in DOMAIN tm THEN tm[tag] ELSE <<>>

\* The first key of the sequence ks that is not in `seen`, NoKey if none.
NextKey(ks, seen) ==
    LET left == SelectSeq(ks, LAMBDA k : k \notin seen)
    IN IF left = <<>> THEN NoKey ELSE Head(left)

\* part_003:682-687: `for (const key of keysForTag)` from where the loop
\* of task t stands, up to the await of `this.get(key)` or the end.  The
\* iterator runs over the live Set: a key that a step in between removed
\* is not visited, one that it appended is.
GetByTagLoop(s, t) ==
    LET k == NextKey(KeysForTag(s.tagsMap, t.tag), t.seen)
    IN IF k = NoKey
       THEN [s EXCEPT !.returned = RetObject("getByTag", t.tag, t.res)]
       ELSE GetEnter(s, [t EXCEPT !.key = k, !.seen = @ \cup {k}])

\* part_003:676-680.
GetByTagEnter(s, t) ==
    IF t.tag \notin DOMAIN s.tagsMap
    THEN [s EXCEPT !.returned = RetObject("getByTag", t.tag, EmptyMap)]
    ELSE GetByTagLoop(s, t)

\* A variant of the continuation below that ends the loop after the first
\* key.
GetByTagGotFirstOnly(s, t) ==
    LET res == IF t.val # Undef THEN Put(t.res, t.key, t.val) ELSE t.res
    IN [s EXCEPT !.returned = RetObject("getByTag", t.tag, res)]

\* part_003:683-686: after `await this.get(key)`.
GetByTagGotBody(s, t) ==
    GetByTagLoop(s, IF t.val # Undef THEN [t EXCEPT !.res = Put(@, t.key, t.val)] ELSE t)

\* ------------------------------------------------------------ deleteByTag
\* part_003:652-654: `keys.map(key => this.delete(key))`: every delete is
\* called, one after the other, before any of them resumes.
RECURSIVE DeleteEach(_, _, _)
DeleteEach(s, ks, tag) ==
    IF ks = <<>> THEN s
    ELSE DeleteEach(DeleteEnter(s, [NoTask EXCEPT !.op = "each", !.key = Head(ks),
                                                  !.tag = tag], Head(ks)),
                    Tail(ks), tag)

\* part_003:696-702: deleteByTag(tag), up to `await this.deleteMultiple`.
DeleteByTagEnter(s, t) ==
    IF t.tag \notin DOMAIN s.tagsMap
    THEN Return(s, "deleteByTag", t.tag, False)
    ELSE LET keysToDelete == s.tagsMap[t.tag]
         IN Suspend(DeleteEach(Disturb(s, Range(keysToDelete)), keysToDelete, t.tag),
                    [t EXCEPT !.pc = "all", !.i = Len(keysToDelete)])

\* The deletes that the Promise.all of deleteMultiple still waits for.
Pending(s, tag) == {u \in BagToSet(s.tasks) : u.op = "each" /\ u.tag = tag}

\* part_003:655, 703: after the Promise.all (a rejection of one of the
\* deletes rejects deleteByTag).
DeleteByTagDoneBody(s, t) ==
    IF t.err THEN Return(s, "deleteByTag", t.tag, Raised)
    ELSE Return(s, "deleteByTag", t.tag, IF t.i > 0 THEN True ELSE False)

\* ------------------------------------------------------------- statistics
\* A quotient of two counters, and `q || 0`: 0 / 0 is NaN, and NaN and 0
\* are falsy.
Ratio(n, d) == <<n, d>>
OrZero(q) == IF q[2] = 0 \/ q[1] = 0 THEN 0 ELSE q

\* part_003:567-575: getStats(), a synchronous method without effect.
GetStats(s) ==
    [hits |-> s.stats.hits, misses |-> s.stats.misses, sets |-> s.stats.sets,
     deletes |-> s.stats.deletes, evictions |-> s.stats.evictions,
     size |-> Cardinality(DOMAIN s.cache),
     hitRate |-> OrZero(Ratio(s.stats.hits, s.stats.hits + s.stats.misses)),
     totalAccesses |-> s.stats.totalAccesses, totalExpired |-> s.stats.totalExpired]

\* part_003:580-591: resetStats().
ResetStatsBody(s) ==
    Return([s EXCEPT !.stats = ZeroStats, !.outcomes = NoOutcomes],
           "resetStats", NoKey, This)

\* ------------------------------------------------------------------ touch
\* part_003:755-777: touch(key, ttl), a synchronous method.
TouchBody(s, k, ttl) ==
    IF k \notin DOMAIN s.cache
    THEN Return(s, "touch", k, False)
    ELSE LET s0 == Disturb(s, {k})
             s1 == IF k \in DOMAIN s0.timers
                   THEN [s0 EXCEPT !.armed = ClearTimeout(@, s0.timers[k]),
                                   !.timers = Drop(@, k)]
                   ELSE s0
             h == Timer(k, now + ttl, "touch", Undef)
             s2 == [s1 EXCEPT !.cache[k].expiresAt = IF ttl > 0 THEN now + ttl ELSE NoExpiry]
             s3 == IF ttl > 0
                   THEN [s2 EXCEPT !.armed = @ (+) One(h), !.timers = Put(@, k, h)]
                   ELSE s2
         IN Return(s3, "touch", k, This)

\* ------------------------------------------------------------------ clear
RECURSIVE ClearAll(_, _)
ClearAll(a, hs) ==
    IF hs = {} THEN a
    ELSE LET h == CHOOSE x \in hs : TRUE IN ClearAll(ClearTimeout(a, h), hs \ {h})

\* part_003:516-519: clear() called by the code of task t, up to the
\* backend clear.
ClearEnter(s, t) ==
    Suspend(IF WriteApplies THEN [Disturb(s, Keys) EXCEPT !.storage = EmptyMap]
            ELSE Disturb(s, Keys),
            [t EXCEPT !.pc = "clr", !.err = WriteFails])

\* The clear() that task t is inside of returns `this`: a clear call of the
\* application returns; destroy resumes in a later step (part_003:834).
ClearReturn(s, t) ==
    IF t.op = "destroy"
    THEN Suspend(s, [t EXCEPT !.pc = "cleared", !.err = FALSE])
    ELSE Return(s, "clear", NoKey, This)

\* part_003:533-536: the backend clear has failed.
ClearCatch(s, t) ==
    IF Listening THEN ClearReturn(Emit(s, ErrorEv(NoKey)), t) ELSE Raise(s, t)

\* part_003:521-532: after the backend clear.
ClearDoneBody(s, t) ==
    LET s1 == Detach(s, DOMAIN s.cache)
        s2 == [s1 EXCEPT !.armed = ClearAll(@, {s.timers[k] : k \in DOMAIN s.timers}),
                         !.cache = EmptyMap, !.timers = EmptyMap, !.accessOrder = <<>>]
    IN IF t.err THEN ClearCatch(s, t)
       ELSE ClearReturn(Emit(s2, Ev("clear", NoKey, Undef)), t)

\* ---------------------------------------------------------------- destroy
\* part_003:835-844: after `await this.clear()`.  clearInterval stops the
\* sweep; of the adapters only RedisAdapter has a disconnect method
\* (src/adapters/redis.js:118), which destroy awaits.
DestroyFinish(s) ==
    [Return(s, "destroy", NoKey, Undef) EXCEPT !.destroyed = TRUE]

DestroyClearedBody(s, t) ==
    LET s1 == [s EXCEPT !.sweep = FALSE]
    IN IF adapter.is = "RedisAdapter"
       THEN Suspend(s1, [t EXCEPT !.pc = "disc"])
       ELSE DestroyFinish(s1)

\* ---------------------------------------------------------------- cleanup
\* What emit('cleanup', n) carries.
CleanupEv(n) == [e |-> "cleanup", k |-> NoKey, v |-> [t |-> "number", x |-> n]]

\* part_003:810-814: the keys whose metadata has an expiresAt in the past.
ExpiredKeys(s) ==
    {k \in DOMAIN s.cache : s.cache[k].expiresAt # NoExpiry /\ now > s.cache[k].expiresAt}

\* part_003:816-821: one un-awaited delete and one totalExpired for each
\* (deletes of different keys do not touch the same state: their order is
\* not modelled).
RECURSIVE CleanupEach(_, _)
CleanupEach(s, ks) ==
    IF ks = {} THEN s
    ELSE LET k == CHOOSE x \in ks : TRUE
         IN CleanupEach(Count(DeleteEnter(s, [NoTask EXCEPT !.op = "expire", !.key = k], k),
                              "totalExpired"),
                        ks \ {k})

\* _cleanup(): part_003:806-827.
CleanupBody(s) ==
    LET expiredKeys == ExpiredKeys(s)
        s1 == CleanupEach(s, expiredKeys)
    IN IF expiredKeys # {} THEN Emit(s1, CleanupEv(Cardinality(expiredKeys))) ELSE s1

\* ----------------------------------------------------------------- timers
\* part_003:325-331, 403-406: the timeout callback, up to its first await.
\* The timeout of touch (part_003:769-772) does not await its delete and
\* emits at once, with `item.value`, a property the metadata does not have.
TimerEnter(s, h) ==
    LET s0 == [s EXCEPT !.armed = @ (-) One(h)]
    IN IF h.kind = "touch"
       THEN Emit(DeleteEnter(s0, [NoTask EXCEPT !.op = "expire", !.key = h.key], h.key),
                 Ev("expired", h.key, Undef))
       ELSE DeleteEnter(s0, [NoTask EXCEPT !.op = "timer", !.key = h.key,
                                            !.kind = h.kind, !.val = h.val],
                        h.key)

\* part_003:327-330 (armed by set) and 405 (armed by get): after the
\* awaited delete.
TimerExpiredBody(s, t) ==
    Emit(IF t.kind = "set" THEN Count(s, "totalExpired") ELSE s,
         Ev("expired", t.key, t.val))

\* A task whose continuation is a microtask: it runs before any timeout.
InMicrotask(t) == t.pc \in {"evicted", "dret", "got", "setdone", "tgot", "cleared"}

\* ---------------------------------------------------------------- actions
Waiting(op, pc) == {t \in BagToSet(tasks) : t.op = op /\ t.pc = pc}
AtPc(pc) == {t \in BagToSet(tasks) : t.pc = pc}
\* The calls of the application that are in flight.
Calls == BagOfAll(LAMBDA t : t.op, tasks)
InFlight ==
    CopiesIn("set", Calls) + CopiesIn("get", Calls) + CopiesIn("delete", Calls)
        + CopiesIn("clear", Calls) + CopiesIn("has", Calls) + CopiesIn("getOrSet", Calls)
        + CopiesIn("getByTag", Calls) + CopiesIn("deleteByTag", Calls)
        + CopiesIn("destroy", Calls)
\* The application calls no method of a cache it has destroyed.
CanCall == issued < MaxOps /\ InFlight < env.inflight /\ ~destroyed
Called(log) ==
    issued' = issued + 1 /\ setLog' = log /\ UNCHANGED <<options, env, now, adapter, broken>>
Resumed == UNCHANGED <<options, env, now, issued, setLog, adapter, broken>>

\* Bookkeeping for the LRU example, not state of the program.  setLog is
\* the sequence of keys written as long as the application has only made
\* accepted set() calls, each one after the one before had completed
\* (test/easycache.test.js:55-59); Tainted from the first other call on.
Tainted == <<NoKey>>
LogSet(k) == IF setLog # Tainted /\ tasks = EmptyBag THEN Append(setLog, k) ELSE Tainted

\* set(key, value, ttl, tags, condition): part_003:241-278.
SetCall(k, v, ttl, tags, cond) ==
    /\ CanCall
    /\ IF Rejected(cond, k, v)
       THEN Commit(Return(St, "set", k, False)) /\ Called(Tainted)
       ELSE /\ Commit(SetEnter(Disturb(St, {k}),
                               [NoTask EXCEPT !.op = "set", !.key = k, !.val = v,
                                              !.ttl = ttl, !.tags = tags,
                                              !.solo = ~Busy(St, k),
                                              !.had = k \in DOMAIN cache]))
            /\ Called(LogSet(k))

\* set, after `await this._evictLRU()`.
SetResume(t) == Commit(StoreCall(Resume(St, t), t)) /\ Resumed

\* set, after `await this.storage.set(...)`.
SetStored(t) == Commit(SetStoredBody(Resume(St, t), t)) /\ Resumed

\* set, after `await this.delete(oldestTaggedKey)`.
SetTagEvicted(t) == Commit(SetTagEvictedBody(Resume(St, t), t)) /\ Resumed

GetCall(k) ==
    /\ CanCall
    /\ Commit(GetEnter(St, [NoTask EXCEPT !.op = "get", !.key = k]))
    /\ Called(Tainted)

GetRead(t) == Commit(GetReadBody(Resume(St, t), t)) /\ Resumed

GetExpired(t) == Commit(GetExpiredBody(Resume(St, t), t)) /\ Resumed

\* getOrSet(key, fn, ttl): part_003:601-603.  preload (part_003:723-727)
\* makes one such call per key of its list, all before any of them resumes.
GosCall(k, ttl, ld) ==
    /\ CanCall
    /\ Commit(GetEnter(St, [NoTask EXCEPT !.op = "getOrSet", !.key = k, !.ttl = ttl,
                                          !.kind = ld]))
    /\ Called(Tainted)

GosGot(t) == Commit(GosGotBody(Resume(St, t), t)) /\ Resumed

GosLoaded(t) == Commit(GosLoadedBody(Resume(St, t), t)) /\ Resumed

GosSetDone(t) == Commit(GosSetDoneBody(Resume(St, t), t)) /\ Resumed

\* has(key): part_003:430-442.
HasCall(k) == CanCall /\ Commit(HasEnter(St, k)) /\ Called(Tainted)

HasRead(t) == Commit(HasReadBody(Resume(St, t), t)) /\ Resumed

HasExpired(t) == Commit(HasExpiredBody(Resume(St, t), t)) /\ Resumed

\* touch(key, ttl): part_003:755-777.  The bookkeeping of `touched` is
\* beside the program.
TouchCall(k, ttl) ==
    /\ CanCall
    /\ LET s == TouchBody(St, k, ttl)
       IN Commit(IF k \in DOMAIN cache /\ ~Busy(St, k)
                 THEN [s EXCEPT !.touched =
                          Put(@, k, IF ttl > 0 THEN now + ttl ELSE NoExpiry)]
                 ELSE s)
    /\ Called(Tainted)

\* The key/value pairs that the state promises a getByTag(tag): the keys
\* of the tag with metadata that is not expired and a value in the backend.
LivePairs(tag) ==
    LET ks == {k \in Range(KeysForTag(tagsMap, tag)) :
                  /\ k \in DOMAIN cache /\ ~IsExpired(cache[k])
                  /\ StorageGet(storage, k) # Undef}
    IN [k \in ks |-> Deserialize(storage[k])]

\* getByTag(tag): part_003:676-683.  `at` and `want` are bookkeeping.
GetByTagCall(tag) ==
    /\ CanCall
    /\ Commit(GetByTagEnter(St, [NoTask EXCEPT !.op = "getByTag", !.tag = tag,
                                               !.at = now, !.want = LivePairs(tag)]))
    /\ Called(Tainted)

GetByTagGot(t) == Commit(GetByTagGotBody(Resume(St, t), t)) /\ Resumed

\* deleteByTag(tag): part_003:696-702.  `seen` and `at` are bookkeeping:
\* the keys that the tag indexed and the value of stats.deletes when the
\* call was made.
DeleteByTagCall(tag) ==
    /\ CanCall
    /\ Commit(DeleteByTagEnter(St, [NoTask EXCEPT !.op = "deleteByTag", !.tag = tag,
                                                  !.seen = Range(KeysForTag(tagsMap, tag)),
                                                  !.at = stats.deletes]))
    /\ Called(Tainted)

DeleteByTagDone(t) ==
    /\ t.err \/ Pending(St, t.tag) = {}
    /\ Commit(DeleteByTagDoneBody(Resume(St, t), t))
    /\ Resumed

\* resetStats(): part_003:580-591.
ResetStatsCall == CanCall /\ Commit(ResetStatsBody(St)) /\ Called(Tainted)

\* delete(key): part_003:460-469, 506.
DeleteCall(k) ==
    /\ CanCall
    /\ LET s == DeleteEnter(Disturb(St, {k}),
                            [NoTask EXCEPT !.op = "delete", !.key = k], k)
       IN Commit(IF k \in DOMAIN cache THEN s ELSE Return(s, "delete", k, This))
    /\ Called(Tainted)

DeleteGot(t) == Commit(DeleteGotBody(Resume(St, t), t)) /\ Resumed

DeleteDone(t) == Commit(DeleteDoneBody(Resume(St, t), t)) /\ Resumed

\* clear(): part_003:516-519.
ClearCall ==
    /\ CanCall
    /\ Commit(ClearEnter(St, [NoTask EXCEPT !.op = "clear"]))
    /\ Called(Tainted)

ClearDone(t) == Commit(ClearDoneBody(Resume(St, t), t)) /\ Resumed

\* destroy(): part_003:832-834.
DestroyCall ==
    /\ CanCall
    /\ Commit(ClearEnter(St, [NoTask EXCEPT !.op = "destroy"]))
    /\ Called(Tainted)

DestroyCleared(t) == Commit(DestroyClearedBody(Resume(St, t), t)) /\ Resumed

\* part_003:840-844: after `await this.storage.disconnect()`.
DestroyDisconnected(t) == Commit(DestroyFinish(Resume(St, t))) /\ Resumed

\* The interval of part_003:197-201 runs _cleanup.  The tick of the model
\* is much shorter than checkInterval and where the interval falls among
\* the ticks is left open; the deletes of one run have completed before
\* the next run.
Cleanup ==
    /\ sweep
    /\ \A t \in BagToSet(tasks) : t.op # "expire"
    /\ \A t \in BagToSet(tasks) : ~InMicrotask(t)
    /\ Commit(CleanupBody(St))
    /\ Resumed

\* A pending timeout whose delay has passed runs its callback.
TimerFire(h) ==
    /\ now >= h.due
    /\ \A t \in BagToSet(tasks) : ~InMicrotask(t)
    /\ Commit(TimerEnter(St, h))
    /\ Resumed

TimerExpired(t) == Commit(TimerExpiredBody(Resume(St, t), t)) /\ Resumed

\* The backend starts to fail in the way `how`, or works again.
BackendTurns(how) ==
    /\ broken # how
    /\ broken' = how
    /\ emitted' = <<>>
    /\ returned' = NoReturn
    /\ UNCHANGED <<options, env, cache, accessOrder, tagsMap, timers, armed, storage,
                   stats, tasks, now, issued, promised, touched, loads, setLog, written,
                   adapter, sweep, destroyed, outcomes>>

\* Time passes.
Tick ==
    /\ now < MaxTime
    /\ now' = now + 1
    /\ emitted' = <<>>
    /\ returned' = NoReturn
    /\ UNCHANGED <<options, env, cache, accessOrder, tagsMap, timers, armed, storage,
                   stats, tasks, issued, promised, touched, loads, setLog, written,
                   adapter, broken, sweep, destroyed, outcomes>>

SetSteps ==
    \/ \E k \in env.keys, v \in env.values, ttl \in env.ttls, tags \in env.tags,
          cond \in env.conds : SetCall(k, v, ttl, tags, cond)
    \/ \E t \in Waiting("set", "store") : SetStored(t)

GetSteps ==
    \/ \E k \in env.keys : GetCall(k)
    \/ \E t \in Waiting("get", "read") : GetRead(t)

GosSteps ==
    \/ \E k \in env.keys, ttl \in env.ttls : GosCall(k, ttl, env.loader)
    \/ \E t \in Waiting("getOrSet", "read") : GetRead(t)
    \/ \E t \in Waiting("getOrSet", "got") : GosGot(t)
    \/ \E t \in Waiting("getOrSet", "loaded") : GosLoaded(t)
    \/ \E t \in Waiting("getOrSet", "store") : SetStored(t)
    \/ \E t \in Waiting("getOrSet", "setdone") : GosSetDone(t)

GetByTagSteps ==
    \/ \E tag \in Tags : GetByTagCall(tag)
    \/ \E t \in Waiting("getByTag", "read") : GetRead(t)
    \/ \E t \in Waiting("getByTag", "dret") : GetExpired(t)
    \/ \E t \in Waiting("getByTag", "tgot") : GetByTagGot(t)

DeleteByTagSteps ==
    \/ \E tag \in Tags : DeleteByTagCall(tag)
    \/ \E t \in Waiting("deleteByTag", "all") : DeleteByTagDone(t)

HasSteps ==
    \/ \E k \in env.keys : HasCall(k)
    \/ \E t \in Waiting("has", "hread") : HasRead(t)
    \/ \E t \in Waiting("has", "dret") : HasExpired(t)

TouchSteps == \E k \in env.keys, ttl \in env.ttls : TouchCall(k, ttl)

DeleteSteps ==
    \/ \E k \in env.keys : DeleteCall(k)
    \/ \E t \in AtPc("dget") : DeleteGot(t)
    \/ \E t \in AtPc("ddel") : DeleteDone(t)

ClearSteps ==
    \/ ClearCall
    \/ \E t \in Waiting("clear", "clr") : ClearDone(t)

DestroySteps ==
    \/ DestroyCall
    \/ \E t \in Waiting("destroy", "clr") : ClearDone(t)
    \/ \E t \in Waiting("destroy", "cleared") : DestroyCleared(t)
    \/ \E t \in Waiting("destroy", "disc") : DestroyDisconnected(t)

TimerSteps ==
    \/ \E h \in BagToSet(armed) : TimerFire(h)
    \/ \E t \in Waiting("timer", "dret") : TimerExpired(t)

\* ------------------------------------------------------------ constructor
\* What an application passes as options.storage.  A string is one of the
\* names below, in small letters or in capitals; an object has or lacks
\* the methods get, set, has and delete, and `lower` is what its own
\* toLowerCase() returns ("none": it has no such method, as the adapter of
\* README.md:644-662); "absent": the option is not given.
Names == {"memory", "file", "json", "redis", "postgresql", "postgres", "sqlite", "mem", ""}
Str(n) == [type |-> "string", name |-> n, capitals |-> FALSE]
Selections ==
    [type : {"string"}, name : Names, capitals : BOOLEAN]
    \cup [type : {"object"}, get : BOOLEAN, set : BOOLEAN, has : BOOLEAN,
          delete : BOOLEAN, lower : {"none", "memory", "custom", "sqlite"}]
    \cup {[type |-> ty] : ty \in {"absent", "undefined", "null", "number", "boolean"}}

\* this.storage before the constructor ran, after it built an adapter
\* ("options.storage": the object that was passed), and the error the
\* constructor threw.
Unbuilt == [ok |-> FALSE, is |-> "nothing", error |-> "none"]
Built(a) == [ok |-> TRUE, is |-> a, error |-> "none"]
Thrown(e) == [ok |-> FALSE, is |-> "nothing", error |-> e]

\* part_003:171, 176: `storage: options.storage || 'memory', ...options`.
\* The spread writes a given value back, a falsy one as well.
ResolveStorage(sel) == IF sel.type = "absent" THEN Str("memory") ELSE sel

\* String.prototype.toLowerCase.
ToLowerCase(sel) == [sel EXCEPT !.capitals = FALSE]

\* The adapter class that the switch of part_003:207-223 has for a name.
AdapterOf(n) ==
    CASE n = Str("memory") -> "MemoryAdapter"
      [] n = Str("file") -> "FileAdapter"
      [] n = Str("json") -> "JsonAdapter"
      [] n = Str("redis") -> "RedisAdapter"
      [] n \in {Str("postgresql"), Str("postgres")} -> "PostgreSQLAdapter"
      [] OTHER -> "none"

\* part_003:204-232.  `storage.toLowerCase()` is evaluated first: a value
\* with no such method makes it a TypeError.
InitializeStorage(sel) ==
    IF sel.type \notin {"string", "object"} \/ (sel.type = "object" /\ sel.lower = "none")
    THEN Thrown("TypeError")
    ELSE LET n == IF sel.type = "string" THEN ToLowerCase(sel) ELSE Str(sel.lower)
         IN IF AdapterOf(n) # "none"
            THEN Built(AdapterOf(n))
            ELSE IF sel.type = "object" /\ sel.get /\ sel.set
                 THEN Built("options.storage")
                 ELSE Thrown("Unsupported storage type")

\* `new EasyCache(options)`: part_003:162-180.
Construct ==
    /\ adapter = Unbuilt
    /\ adapter' = InitializeStorage(ResolveStorage(options.storage))
    /\ UNCHANGED <<options, env, cache, accessOrder, tagsMap, timers, armed, storage,
                   stats, tasks, now, issued, emitted, returned, promised, touched,
                   loads, setLog, written, broken, sweep, destroyed, outcomes>>

\* --------------------------------------------------------- initial states
\* The fields of a new object (part_003:182-201), for the options `o` and
\* callers that draw their arguments from `e`.
Fresh(o, e) ==
    /\ options = o
    /\ env = e
    /\ cache = EmptyMap
    /\ accessOrder = <<>>
    /\ tagsMap = EmptyMap
    /\ timers = EmptyMap
    /\ armed = EmptyBag
    /\ storage = EmptyMap
    /\ stats = ZeroStats
    /\ tasks = EmptyBag
    /\ now = 0
    /\ issued = 0
    /\ emitted = <<>>
    /\ returned = NoReturn
    /\ promised = EmptyMap
    /\ touched = EmptyMap
    /\ loads = 0
    /\ setLog = <<>>
    /\ written = EmptyMap
    /\ broken = "no"
    /\ sweep = (o.checkInterval > 0)
    /\ destroyed = FALSE
    /\ outcomes = NoOutcomes

\* The state the constructor leaves (part_003:162-202).
InitWith(o, e) ==
    Fresh(o, e) /\ adapter = InitializeStorage(ResolveStorage(o.storage))

\* part_003:169.
CheckInterval == 60000

Options(maxSize, defaultTTL, slidingTTL, caps) ==
    [maxSize |-> maxSize, defaultTTL |-> defaultTTL, slidingTTL |-> slidingTTL,
     checkInterval |-> CheckInterval, enableStats |-> TRUE, storage |-> Str("memory"),
     codec |-> "json",
     maxEntriesPerTag |-> caps]

NoCaps == [tg \in Tags |-> 0]

\* Capacity and LRU: NumKeys keys compete for NumKeys - 1 places; calls
\* overlap.  No TTL, no tags.
Init ==
    InitWith(Options(NumKeys - 1, 0, FALSE, NoCaps),
             [keys |-> Keys, values |-> {Val(1)}, ttls |-> {NullTTL},
              tags |-> {<<>>}, conds |-> {"none"}, inflight |-> MaxInflight])

Next ==
    \/ SetSteps
    \/ \E t \in Waiting("set", "evicted") : SetResume(t)
    \/ GetSteps
    \/ DeleteSteps
    \/ ClearSteps
    \/ Tick

Spec == Init /\ [][Next]_vars

\* TTL: one key, every kind of ttl argument, a default TTL; the calls of the
\* application do not overlap, the timeouts run beside them.
InitTTL ==
    InitWith(Options(NumKeys, 1, FALSE, NoCaps),
             [keys |-> {1}, values |-> {Val(1)}, ttls |-> {NullTTL, 0, 1, 2},
              tags |-> {<<>>}, conds |-> {"none"}, inflight |-> 1])

NextTTL ==
    \/ SetSteps
    \/ GetSteps
    \/ \E t \in Waiting("get", "dret") : GetExpired(t)
    \/ DeleteSteps
    \/ ClearSteps
    \/ TimerSteps
    \/ Tick

SpecTTL == InitTTL /\ [][NextTTL]_vars

\* maxEntriesPerTag: tag 1 holds one key at most, the other tags any number.
Caps == [tg \in Tags |-> IF tg = 1 THEN 1 ELSE 0]

\* Tags: NumKeys - 1 keys, written with no tag or one; the calls of the
\* application do not overlap.
InitTag ==
    InitWith(Options(NumKeys, 0, FALSE, Caps),
             [keys |-> 1..(NumKeys - 1), values |-> {Val(1)}, ttls |-> {NullTTL},
              tags |-> {<<>>} \cup {<<tg>> : tg \in Tags},
              conds |-> {"none"}, inflight |-> 1])

NextTag ==
    \/ SetSteps
    \/ \E t \in Waiting("set", "dret") : SetTagEvicted(t)
    \/ GetSteps
    \/ DeleteSteps
    \/ ClearSteps
    \/ Tick

SpecTag == InitTag /\ [][NextTag]_vars

\* Conditional writes: one key, every value, with and without a TTL and a
\* tag, under no condition, a condition that rejects everything and one
\* that accepts the first value only; the calls do not overlap.
InitCond ==
    InitWith(Options(NumKeys, 0, FALSE, NoCaps),
             [keys |-> {1}, values |-> Values, ttls |-> {NullTTL, 1},
              tags |-> {<<>>, <<NumTags>>},
              conds |-> {"none", "never", "first"}, inflight |-> 1])

NextCond ==
    \/ SetSteps
    \/ DeleteSteps
    \/ TimerSteps
    \/ Tick

SpecCond == InitCond /\ [][NextCond]_vars

\* Tags under overlapping calls: every key is written with the capped tag 1;
\* no clear().
InitTagRace ==
    InitWith(Options(NumKeys, 0, FALSE, Caps),
             [keys |-> Keys, values |-> {Val(1)}, ttls |-> {NullTTL},
              tags |-> {<<1>>}, conds |-> {"none"}, inflight |-> MaxInflight])

NextTagRace ==
    \/ SetSteps
    \/ \E t \in Waiting("set", "dret") : SetTagEvicted(t)
    \/ GetSteps
    \/ DeleteSteps
    \/ Tick

SpecTagRace == InitTagRace /\ [][NextTagRace]_vars

\* has(): two keys, written with no TTL or a TTL of one tick; the calls of
\* the application do not overlap, the timeouts run beside them.
InitHas ==
    InitWith(Options(NumKeys, 0, FALSE, NoCaps),
             [keys |-> 1..(NumKeys - 1), values |-> {Val(1)}, ttls |-> {NullTTL, 1},
              tags |-> {<<>>}, conds |-> {"none"}, inflight |-> 1])

NextHas ==
    \/ SetSteps
    \/ GetSteps
    \/ \E t \in Waiting("get", "dret") : GetExpired(t)
    \/ HasSteps
    \/ DeleteSteps
    \/ TimerSteps
    \/ Tick

SpecHas == InitHas /\ [][NextHas]_vars

\* Sliding TTL: slidingTTL is on; one key, every entry written with the
\* TTL SlideTTL; the calls of the application do not overlap, the timeouts
\* run beside them.
InitSlide ==
    InitWith(Options(NumKeys, 0, TRUE, NoCaps),
             [keys |-> {1}, values |-> {Val(1)}, ttls |-> {SlideTTL},
              tags |-> {<<>>}, conds |-> {"none"}, inflight |-> 1])

NextSlide ==
    \/ SetSteps
    \/ GetSteps
    \/ \E t \in Waiting("get", "dret") : GetExpired(t)
    \/ DeleteSteps
    \/ TimerSteps
    \/ Tick

SpecSlide == InitSlide /\ [][NextSlide]_vars

\* touch(): one key, written and touched with no TTL or a TTL of one or two
\* ticks; the calls of the application do not overlap, the timeouts run
\* beside them.
InitTouch ==
    InitWith(Options(NumKeys, 0, FALSE, NoCaps),
             [keys |-> {1}, values |-> {Val(1)}, ttls |-> {NullTTL, 1, 2},
              tags |-> {<<>>}, conds |-> {"none"}, inflight |-> 1])

NextTouch ==
    \/ SetSteps
    \/ GetSteps
    \/ \E t \in Waiting("get", "dret") : GetExpired(t)
    \/ TouchSteps
    \/ DeleteSteps
    \/ TimerSteps
    \/ Tick

SpecTouch == InitTouch /\ [][NextTouch]_vars

\* The loaders a profile of getOrSet is explored with.
Loaders == {"counting", "nothing", "date"}

\* getOrSet in turn: one key, no TTL, each of the loaders; the calls of the
\* application (getOrSet and delete) do not overlap.
InitLoad ==
    \E ld \in Loaders :
        InitWith(Options(NumKeys, 0, FALSE, NoCaps),
                 [keys |-> {1}, values |-> {Val(1)}, ttls |-> {NullTTL},
                  tags |-> {<<>>}, conds |-> {"none"}, inflight |-> 1, loader |-> ld])

NextLoad ==
    \/ GosSteps
    \/ DeleteSteps
    \/ Tick

SpecLoad == InitLoad /\ [][NextLoad]_vars

\* getOrSet overlapping, as preload issues it: one key, the counting loader.
InitLoadRace ==
    InitWith(Options(NumKeys, 0, FALSE, NoCaps),
             [keys |-> {1}, values |-> {Val(1)}, ttls |-> {NullTTL},
              tags |-> {<<>>}, conds |-> {"none"}, inflight |-> MaxInflight,
              loader |-> "counting"])

NextLoadRace ==
    \/ GosSteps
    \/ Tick

SpecLoadRace == InitLoadRace /\ [][NextLoadRace]_vars

\* A Date (what JSON gives back is not a Date), and the values a round
\* trip is tried with.
Date(n) == [t |-> "date", x |-> n]
Shapes == Values \cup {Date(1), Null, Undef}

\* Round trips: one key, no TTL, every shape of value under every pair of
\* serialize and deserialize; set, get and delete calls overlap.
InitTrip ==
    \E c \in Codecs :
        InitWith([Options(NumKeys, 0, FALSE, NoCaps) EXCEPT !.codec = c],
                 [keys |-> {1}, values |-> Shapes, ttls |-> {NullTTL},
                  tags |-> {<<>>}, conds |-> {"none"}, inflight |-> MaxInflight])

NextTrip ==
    \/ SetSteps
    \/ GetSteps
    \/ DeleteSteps

SpecTrip == InitTrip /\ [][NextTrip]_vars

\* Statistics: one key, written with no TTL or a TTL of one tick; get, set,
\* delete and resetStats calls do not overlap, the timeouts run beside
\* them; the backend fails and recovers, and a listener for 'error' is
\* registered.
InitStats ==
    InitWith(Options(NumKeys, 0, FALSE, NoCaps),
             [keys |-> {1}, values |-> {Val(1)}, ttls |-> {NullTTL, 1},
              tags |-> {<<>>}, conds |-> {"none"}, inflight |-> 1, onError |-> TRUE])

NextStats ==
    \/ SetSteps
    \/ GetSteps
    \/ \E t \in Waiting("get", "dret") : GetExpired(t)
    \/ DeleteSteps
    \/ ResetStatsCall
    \/ TimerSteps
    \/ \E how \in {"down", "no"} : BackendTurns(how)
    \/ Tick

SpecStats == InitStats /\ [][NextStats]_vars

\* getByTag: NumKeys - 1 keys, written with no tag or with tag 1, with no
\* TTL or a TTL of one tick; the calls of the application do not overlap.
\* Expired keys are found by the calls (lazy expiration).
InitByTag ==
    InitWith(Options(NumKeys, 0, FALSE, NoCaps),
             [keys |-> 1..(NumKeys - 1), values |-> {Val(1)}, ttls |-> {NullTTL, 1},
              tags |-> {<<>>, <<1>>}, conds |-> {"none"}, inflight |-> 1])

NextByTag ==
    \/ SetSteps
    \/ GetByTagSteps
    \/ DeleteSteps
    \/ ClearSteps
    \/ Tick

SpecByTag == InitByTag /\ [][NextByTag]_vars

\* deleteByTag: NumKeys - 1 keys, written with no tag or with tag 1, no
\* TTL; set, delete, clear and deleteByTag calls do not overlap.
InitDelTag ==
    InitWith(Options(NumKeys, 0, FALSE, NoCaps),
             [keys |-> 1..(NumKeys - 1), values |-> {Val(1)}, ttls |-> {NullTTL},
              tags |-> {<<>>, <<1>>}, conds |-> {"none"}, inflight |-> 1])

NextDelTag ==
    \/ SetSteps
    \/ DeleteByTagSteps
    \/ DeleteSteps
    \/ ClearSteps

SpecDelTag == InitDelTag /\ [][NextDelTag]_vars

\* Shutdown: one key, written with a TTL of one tick; a destroy and a set
\* may overlap; the backend is the memory or the Redis adapter, the
\* timeouts and the sweep run beside the calls.
InitDestroy ==
    \E a \in {"memory", "redis"} :
        InitWith([Options(NumKeys, 0, FALSE, NoCaps) EXCEPT !.storage = Str(a)],
                 [keys |-> {1}, values |-> {Val(1)}, ttls |-> {1},
                  tags |-> {<<>>}, conds |-> {"none"}, inflight |-> MaxInflight])

NextDestroy ==
    \/ SetSteps
    \/ DestroySteps
    \/ \E t \in AtPc("dget") : DeleteGot(t)
    \/ \E t \in AtPc("ddel") : DeleteDone(t)
    \/ TimerSteps
    \/ Cleanup
    \/ Tick

SpecDestroy == InitDestroy /\ [][NextDestroy]_vars

\* The three operations that arm a timer, overlapping: set with a TTL, get
\* under slidingTTL and touch, on one key.
InitTimers ==
    InitWith(Options(NumKeys, 0, TRUE, NoCaps),
             [keys |-> {1}, values |-> {Val(1)}, ttls |-> {SlideTTL},
              tags |-> {<<>>}, conds |-> {"none"}, inflight |-> MaxInflight])

NextTimers ==
    \/ SetSteps
    \/ GetSteps
    \/ \E t \in Waiting("get", "dret") : GetExpired(t)
    \/ TouchSteps
    \/ \E t \in AtPc("dget") : DeleteGot(t)
    \/ \E t \in AtPc("ddel") : DeleteDone(t)
    \/ TimerSteps
    \/ Tick

SpecTimers == InitTimers /\ [][NextTimers]_vars

\* The operations that count accesses, overlapping, and resetStats: one
\* key, written with and without a TTL; expiration is lazy only.
InitAccess ==
    InitWith(Options(NumKeys, 0, FALSE, NoCaps),
             [keys |-> {1}, values |-> {Val(1)}, ttls |-> {NullTTL, 1},
              tags |-> {<<1>>}, conds |-> {"none"}, inflight |-> MaxInflight,
              loader |-> "counting"])

NextAccess ==
    \/ SetSteps
    \/ GetSteps
    \/ \E t \in Waiting("get", "dret") : GetExpired(t)
    \/ GetByTagSteps
    \/ GosSteps
    \/ \E t \in AtPc("dget") : DeleteGot(t)
    \/ \E t \in AtPc("ddel") : DeleteDone(t)
    \/ ResetStatsCall
    \/ Tick

SpecAccess == InitAccess /\ [][NextAccess]_vars

\* The ways a backend fails.
Failures == {"down", "unsaved"}

\* Backend failures: one key, written with no tag or with a tag, no TTL; the
\* backend fails and recovers at any moment; the application has or has not
\* registered a listener for 'error'; its calls do not overlap.
InitFail ==
    \E l \in BOOLEAN :
        InitWith(Options(NumKeys, 0, FALSE, NoCaps),
                 [keys |-> {1}, values |-> {Val(1)}, ttls |-> {NullTTL},
                  tags |-> {<<>>, <<1>>}, conds |-> {"none"}, inflight |-> 1,
                  onError |-> l])

NextFail ==
    \/ SetSteps
    \/ GetSteps
    \/ \E k \in env.keys : HasCall(k)
    \/ \E t \in Waiting("has", "hread") : HasRead(t)
    \/ DeleteSteps
    \/ ClearSteps
    \/ \E how \in Failures \cup {"no"} : BackendTurns(how)

SpecFail == InitFail /\ [][NextFail]_vars

\* The constructor alone, for every kind of options.storage.
InitStorage ==
    \E sel \in Selections :
        /\ Fresh([Options(NumKeys, 0, FALSE, NoCaps) EXCEPT !.storage = sel],
                 [keys |-> {1}, values |-> {Val(1)}, ttls |-> {NullTTL},
                  tags |-> {<<>>}, conds |-> {"none"}, inflight |-> 1])
        /\ adapter = Unbuilt

NextStorage == Construct

SpecStorage == InitStorage /\ [][NextStorage]_vars

\* -------------------------------------------------------------- properties
Size == Cardinality(DOMAIN cache)
Quiet == tasks = EmptyBag

\* Some set(k, ...) call of the application is the step.
SetOf(k) ==
    \E v \in env.values, ttl \in env.ttls, tags \in env.tags, cond \in env.conds :
        SetCall(k, v, ttl, tags, cond)
\* The engine is at capacity and k is new.
AtCapacityFor(k) == Size >= options.maxSize /\ k \notin DOMAIN cache
\* An eviction task (the delete that _evictLRU started) of key k is pending.
Evicting(tk, k) == \E d \in BagToSet(tk) : d.op = "evict" /\ d.key = k
\* The step starts no eviction task.
NoNewEviction ==
    \A d \in BagToSet(tasks') : d.op = "evict" => CopiesIn(d, tasks') <= CopiesIn(d, tasks)

\* C1: the number of keys with a metadata entry never exceeds maxSize.
C1_CapacityBound == Size <= options.maxSize

\* The place in accessOrder of the least recently used key: the smallest
\* last-access time, and the first indexed among equals.
LruIndex(ao) ==
    CHOOSE i \in DOMAIN ao :
        \A j \in DOMAIN ao : ao[i][2] < ao[j][2] \/ (ao[i][2] = ao[j][2] /\ i <= j)
LruKey(ao) == ao[LruIndex(ao)][1]

C2_VictimRule ==
    \A k \in Keys :
        SetOf(k) /\ AtCapacityFor(k) /\ accessOrder # <<>> =>
            /\ emitted' = <<Ev("evicted", LruKey(accessOrder), Undef)>>
            /\ LruKey(accessOrder) \in DOMAIN cache => Evicting(tasks', LruKey(accessOrder))
C2_Refresh ==
    /\ \A t \in Waiting("set", "store") :
           SetStored(t) => OMHas(accessOrder', t.key) /\ OMGet(accessOrder', t.key) = now
    /\ \A t \in Waiting("get", "read") :
           GetRead(t) /\ returned'.r # Undef =>
               OMHas(accessOrder', t.key) /\ OMGet(accessOrder', t.key) = now
C2_Example ==
    ( /\ setLog # Tainted
      /\ Len(setLog) = options.maxSize + 1
      /\ Cardinality(Range(setLog)) = Len(setLog)
      /\ Quiet )
    => DOMAIN cache = Range(setLog) \ {setLog[1]}

\* C2: a set of a new key at capacity evicts the key with the smallest
\* last-access time, the first indexed among equals; set and every hit of
\* get refresh the last-access time; and maxSize + 1 distinct new keys set
\* in turn leave all but the first of them present.
C2_LRUVictim == [][C2_VictimRule /\ C2_Refresh /\ C2_Example']_vars

\* An eviction has just taken a key that is not the first indexed: a hit of
\* get had refreshed the key before it.
C2_Witness ==
    \E k \in Keys :
        /\ emitted = <<Ev("evicted", k, Undef)>>
        /\ stats.hits = 1 /\ stats.sets = 2 /\ issued = 4
        /\ Len(accessOrder) = 2
        /\ accessOrder[2][1] = k
        /\ Evicting(tasks, k)

\* C3: a set of a new key at capacity makes exactly one LRU eviction (one
\* evicted event, evictions + 1), and the victim's metadata is removed
\* before the metadata of the new key is inserted.
C3_EvictionFirst ==
    [][ /\ \A k \in Keys :
              SetOf(k) /\ AtCapacityFor(k) /\ accessOrder # <<>> =>
                  /\ Len(emitted') = 1 /\ emitted'[1].e = "evicted"
                  /\ stats'.evictions = stats.evictions + 1
        /\ \A t \in Waiting("set", "store") :
              SetStored(t) /\ t.lru # NoKey => ~Evicting(tasks, t.lru)
      ]_vars

\* C4: a set of a key that has a metadata entry starts no capacity eviction:
\* no evicted event, no eviction counted, no delete started, no key removed.
C4_NoEvictionOnUpdate ==
    [][ \A k \in Keys :
           SetOf(k) /\ k \in DOMAIN cache =>
               /\ stats'.evictions = stats.evictions
               /\ emitted' = <<>>
               /\ NoNewEviction
               /\ DOMAIN cache' = DOMAIN cache
               /\ accessOrder' = accessOrder
      ]_vars

\* A set of a key with an entry is under way in a full engine, and no
\* eviction was started for it.
C4_Witness ==
    /\ Size >= options.maxSize
    /\ emitted = <<>>
    /\ \E t \in Waiting("set", "store") :
          t.key \in DOMAIN cache /\ t.lru = NoKey /\ ~Evicting(tasks, LruKey(accessOrder))

\* A get(k) called now would be a hit / a miss.
WouldHit(k) == k \in DOMAIN cache /\ ~IsExpired(cache[k]) /\ StorageGet(storage, k) # Undef
WouldMiss(k) == k \notin DOMAIN cache \/ IsExpired(cache[k])

\* C5: a key set with a ttl > 0 at time t0, and since then neither set
\* again, deleted, cleared nor evicted, is a hit of get at every time before
\* t0 + ttl and a miss at every time after it.
C5_TTLCorrect ==
    \A k \in DOMAIN promised :
        promised[k] # NoExpiry =>
            /\ now < promised[k] => WouldHit(k)
            /\ now > promised[k] => WouldMiss(k)

\* The TTL a set() works with: the default for an absent (null) ttl only,
\* and, in the second reading, for a ttl of 0 as well.
ResolvedTTL(ttl) == IF ttl = NullTTL THEN options.defaultTTL ELSE ttl
ResolvedTTLZeroToo(ttl) == IF ttl = NullTTL \/ ttl = 0 THEN options.defaultTTL ELSE ttl

\* The set of task t completes in this step and leaves its entry with the
\* TTL eff: an expiry eff after the time of the call and a timeout eff from
\* now if eff > 0, and neither an expiry nor a timeout otherwise.
CompletesWithTTL(t, eff) ==
    LET k == t.key IN
    /\ k \in DOMAIN cache'
    /\ IF eff > 0
       THEN /\ cache'[k].expiresAt # NoExpiry
            /\ cache'[k].expiresAt - eff \in 0..now
            /\ k \in DOMAIN timers'
            /\ timers'[k].due = now + eff
            /\ BagIn(timers'[k], armed')
       ELSE /\ cache'[k].expiresAt = NoExpiry
            /\ k \notin DOMAIN timers'
            /\ \A h \in BagToSet(armed') : h.key # k

\* C6 (as stated): a ttl of 0 and an absent ttl both resolve to defaultTTL;
\* the entry gets no expiry and no timeout only when the resolved TTL is 0.
C6_ZeroMeansDefault ==
    [][ \A t \in Waiting("set", "store") :
           SetStored(t) /\ returned'.op = "set" => CompletesWithTTL(t, ResolvedTTLZeroToo(t.ttl))
      ]_vars

\* C6 (amended): an absent (null) ttl resolves to defaultTTL and every other
\* ttl, 0 included, is used as given; the entry gets no expiry and no timeout
\* exactly when the resolved TTL is not greater than 0.
C6_NullMeansDefault ==
    [][ \A t \in Waiting("set", "store") :
           SetStored(t) /\ returned'.op = "set" => CompletesWithTTL(t, ResolvedTTL(t.ttl))
      ]_vars

\* A set with ttl 0 has completed under a positive defaultTTL: its entry has
\* no expiry and no timeout.
C6_Witness ==
    /\ options.defaultTTL > 0
    /\ returned.op = "set" /\ returned.r = This
    /\ returned.k \in DOMAIN cache
    /\ cache[returned.k].expiresAt = NoExpiry
    /\ returned.k \notin DOMAIN timers

\* The tags that key k is indexed under.
TagsOf(tm, k) == {tg \in DOMAIN tm : k \in Range(tm[tg])}

\* C7: when a set(k, ..., T2) that found the entry of an earlier set(k, ...,
\* T1) completes, k is indexed under exactly the tags of T2.
C7_TagReplacement ==
    [][ /\ \A t \in Waiting("set", "store") :
              SetStored(t) /\ t.had /\ returned'.op = "set" =>
                  TagsOf(tagsMap', t.key) = Range(t.tags)
        /\ \A t \in Waiting("set", "dret") :
              SetTagEvicted(t) /\ t.had /\ returned'.op = "set" =>
                  TagsOf(tagsMap', t.key) = Range(t.tags)
      ]_vars

\* No tag holds more keys than its maxEntriesPerTag.
CapsHold ==
    \A tg \in DOMAIN tagsMap :
        options.maxEntriesPerTag[tg] # 0 => Len(tagsMap[tg]) <= options.maxEntriesPerTag[tg]

\* C8: after a set has completed (and nothing else is under way), every tag
\* with a maxEntriesPerTag cap has at most that many member keys: the set
\* that pushed a tag over its cap deleted the tag's least recently used key.
C8_TagCapacity == returned.op = "set" /\ returned.r = This /\ Quiet => CapsHold

\* C9: a set whose condition is false for (key, value) changes nothing:
\* metadata, accessOrder, tagsMap, timers, backend and statistics are as
\* before, and no event is emitted.
C9_RejectedIsNoOp ==
    [][ \A k \in env.keys, v \in env.values, cond \in env.conds :
           ( /\ issued' = issued + 1
             /\ cond # "none" /\ ~CondHolds(cond, k, v)
             /\ \E ttl \in env.ttls, tags \in env.tags : SetCall(k, v, ttl, tags, cond) )
           => /\ UNCHANGED <<cache, accessOrder, tagsMap, timers, armed, storage, stats>>
              /\ emitted' = <<>>
      ]_vars

\* A set was rejected by its condition while its key had an entry with a
\* tag and a pending timeout.
C9_Witness ==
    \E k \in Keys :
        /\ returned = Ret("set", k, False)
        /\ k \in DOMAIN cache /\ k \in DOMAIN timers /\ BagIn(timers[k], armed)
        /\ TagsOf(tagsMap, k) # {}
        /\ stats.sets >= 1

\* C10: delete(k) returns true when k had a metadata entry at the time of
\* the call, and false otherwise.
C10_DeleteReturnsExisted ==
    [][ /\ \A k \in Keys :
              DeleteCall(k) /\ k \notin DOMAIN cache => returned' = Ret("delete", k, False)
        /\ \A t \in AtPc("ddel") :
              DeleteDone(t) /\ t.op = "delete" => returned' = Ret("delete", t.key, True)
      ]_vars

\* C11: delete(k) of a key with no metadata entry, called any number of times
\* in a row, reports each time that the key did not exist (false), emits no
\* event, and leaves metadata, accessOrder, tagsMap, timers, the backend and
\* the statistics (the deletes counter) as they were.
C11_IdempotentDelete ==
    [][ \A k \in Keys :
           DeleteCall(k) /\ k \notin DOMAIN cache =>
               /\ returned' = Ret("delete", k, False)
               /\ emitted' = <<>>
               /\ UNCHANGED <<cache, accessOrder, tagsMap, timers, armed, storage, stats>>
      ]_vars

\* Key k has no trace in the in-memory indexes: no metadata entry, no
\* accessOrder entry, no membership in a tag's key set and no pending
\* timeout.
NoTraceOf(k) ==
    /\ k \notin DOMAIN cache
    /\ ~OMHas(accessOrder, k)
    /\ TagsOf(tagsMap, k) = {}
    /\ \A h \in BagToSet(armed) : h.key # k

\* C12: when a delete(k) has completed, whatever happened before it (a purge
\* of k by get or has included), k has no metadata entry, no accessOrder
\* entry, no membership in any tag's key set and no armed expiration timer.
C12_DeleteCompleteness == \A k \in Keys : returned.op = "delete" /\ returned.k = k => NoTraceOf(k)

\* C13: the delete event of key k carries the last known value of k: the
\* value most recently written by set(k, v), which is the value get(k) would
\* have returned, whenever the backend read of delete gave a value.
C13_DeleteEventValue ==
    [][ \A t \in AtPc("ddel") :
           DeleteDone(t) /\ t.dval # Undef =>
               /\ Deserialize(t.dval) \in Values
               /\ Ev("delete", t.dk, Deserialize(t.dval)) \in Range(emitted')
      ]_vars

\* C14: when clear() has completed with no other operation in flight, the
\* backend holds no value and every in-memory index is empty: no metadata
\* entry, no accessOrder entry, no tag and no tag membership, no timer.
C14_ClearEmptiesAll ==
    returned.op = "clear" /\ Quiet =>
        /\ storage = EmptyMap
        /\ cache = EmptyMap
        /\ accessOrder = <<>>
        /\ tagsMap = EmptyMap
        /\ timers = EmptyMap
        /\ armed = EmptyBag

\* C15: has(k) answers true only when k has a metadata entry that is not
\* expired and the backend confirms the key; a key without metadata gives
\* false at once; an expired k is deleted by has (lazy expiration), a k
\* that the backend does not have loses its metadata and its accessOrder
\* entry, and both give false.
C15_HasContract ==
    [][ /\ \A k \in env.keys :
              issued' = issued + 1 /\ HasCall(k) =>
                  IF k \notin DOMAIN cache
                  THEN returned' = Ret("has", k, False)
                  ELSE /\ returned' = NoReturn
                       /\ \E t \in BagToSet(tasks') :
                             /\ t.op = "has" /\ t.key = k
                             /\ IF now > cache[k].expiresAt /\ cache[k].expiresAt # NoExpiry
                                THEN t.pc = "dget" /\ t.dk = k
                                ELSE t.pc = "hread" /\ (t.found <=> k \in DOMAIN storage)
        /\ \A t \in Waiting("has", "hread") :
              HasRead(t) =>
                  /\ returned' = Ret("has", t.key, IF t.found THEN True ELSE False)
                  /\ ~t.found => t.key \notin DOMAIN cache' /\ ~OMHas(accessOrder', t.key)
        /\ \A t \in Waiting("has", "dret") :
              HasExpired(t) =>
                  /\ returned' = Ret("has", t.key, False)
                  /\ t.key \notin DOMAIN cache' /\ t.key \notin DOMAIN storage'
      ]_vars

\* has(k) has answered false for a key whose metadata it found and whose
\* value the backend no longer had (the delete of the key's expiration
\* timer was under way): the metadata is purged.
C15_Witness ==
    \E k \in Keys :
        /\ returned = Ret("has", k, False)
        /\ k \notin DOMAIN cache /\ ~OMHas(accessOrder, k)
        /\ stats.sets = 1 /\ stats.deletes = 0 /\ issued = 2
        /\ \E t \in Waiting("timer", "ddel") : t.dk = k

\* The step leaves the LRU data of every key that stays cached as it was:
\* its accessCount and its last-access time.
LruKept ==
    \A j \in DOMAIN cache \cap DOMAIN cache' :
        /\ cache'[j].accessCount = cache[j].accessCount
        /\ OMHas(accessOrder, j) =>
               OMHas(accessOrder', j) /\ OMGet(accessOrder', j) = OMGet(accessOrder, j)

\* C16 (as stated): no step of a has() call changes the accessCount or the
\* last-access time of a key or any counter of the statistics.
C16_HasTouchesNothing ==
    [][ /\ \A k \in env.keys :
              issued' = issued + 1 /\ HasCall(k) => LruKept /\ stats' = stats
        /\ \A t \in BagToSet(tasks) :
              ( /\ t.op = "has"
                /\ \/ t.pc = "hread" /\ HasRead(t)
                   \/ t.pc = "dret" /\ HasExpired(t)
                   \/ t.pc = "dget" /\ DeleteGot(t)
                   \/ t.pc = "ddel" /\ DeleteDone(t) )
              => LruKept /\ stats' = stats
      ]_vars

\* C16 (amended): no step of a has() call changes the accessCount or the
\* last-access time of a key that stays cached, nor hits, misses,
\* totalAccesses, sets, evictions or totalExpired; the lazy delete of an
\* expired key by has adds one to the deletes counter, and no other step of
\* has changes that counter.
C16_HasCountsOnlyItsDelete ==
    [][ /\ \A k \in env.keys :
              issued' = issued + 1 /\ HasCall(k) => LruKept /\ stats' = stats
        /\ \A t \in BagToSet(tasks) :
              t.op = "has" =>
                  /\ ( \/ t.pc = "hread" /\ HasRead(t)
                       \/ t.pc = "dret" /\ HasExpired(t)
                       \/ t.pc = "dget" /\ DeleteGot(t) )
                     => LruKept /\ stats' = stats
                  /\ t.pc = "ddel" /\ DeleteDone(t)
                     => LruKept /\ stats' = [stats EXCEPT !.deletes = @ + 1]
      ]_vars

\* has(k) has deleted the expired key k (one delete counted, no expiration
\* timer involved) while another key, read once, keeps its access data.
C16_Witness ==
    \E k \in Keys, j \in DOMAIN cache :
        /\ returned = Ret("has", k, False)
        /\ Quiet /\ k \notin DOMAIN cache
        /\ stats.deletes = 1 /\ stats.totalExpired = 0 /\ stats.sets = 2
        /\ stats.hits = 1 /\ stats.totalAccesses = 1
        /\ cache[j].accessCount = 1

\* C17: with slidingTTL on, every hit of get at time t on an entry written
\* with the finite TTL d leaves the entry with expiresAt = t + d, d being
\* the TTL given when the entry was written, however many earlier hits
\* renewed it; and the expiration timer is armed anew for that instant.
C17_SlidingRenewal ==
    [][ \A t \in Waiting("get", "read"), d \in env.ttls :
           ( /\ GetRead(t) /\ returned'.r # Undef
             /\ options.slidingTTL /\ d > 0
             /\ t.key \in DOMAIN cache' )
           => /\ cache'[t.key].expiresAt = now + d
              /\ t.key \in DOMAIN timers'
              /\ timers'[t.key].due = now + d
              /\ BagIn(timers'[t.key], armed')
      ]_vars

\* A touch(k, ttl) call with ttl > 0 is the step: on a key with metadata it
\* leaves one pending timeout for k, due at now + ttl, and the expiry
\* now + ttl; on a key without metadata it answers false and changes nothing.
TouchContract ==
    \A k \in env.keys, ttl \in env.ttls :
        issued' = issued + 1 /\ ttl > 0 /\ TouchCall(k, ttl) =>
            IF k \in DOMAIN cache
            THEN /\ cache'[k].expiresAt = now + ttl
                 /\ k \in DOMAIN timers' /\ timers'[k].due = now + ttl
                 /\ \A h \in BagToSet(armed') :
                       h.key = k => h = timers'[k] /\ CopiesIn(h, armed') = 1
            ELSE /\ returned' = Ret("touch", k, False)
                 /\ emitted' = <<>>
                 /\ UNCHANGED <<cache, accessOrder, tagsMap, timers, armed, storage, stats>>

\* A key touched with ttl > 0 at time t, and since then not set, touched,
\* deleted, cleared or evicted by the application, is a hit of get at every
\* time before t + ttl.
TouchedStays ==
    \A k \in DOMAIN touched :
        touched[k] # NoExpiry /\ now < touched[k] => WouldHit(k)

\* C18: touch(k, ttl) with ttl > 0 on a present key at time t cancels the
\* timer armed before and moves the expiry to t + ttl, and k stays
\* retrievable until t + ttl, also after its original expiry time has
\* passed; touch on an absent key returns false and changes nothing.
C18_TouchExtends == [][TouchContract /\ TouchedStays']_vars

\* A getOrSet call completes in this step, and no key has been deleted,
\* expired or evicted so far.
GosCompletes(t) ==
    /\ t.op = "getOrSet"
    /\ GosGot(t) \/ GosSetDone(t)
    /\ returned'.op = "getOrSet"
    /\ stats'.deletes = 0 /\ stats'.evictions = 0 /\ stats'.totalExpired = 0

\* The backend keeps the value v: it has a serialized form, and that form
\* is deserialized to v.
Storable(v) == Serialize(v) # Undef /\ Deserialize(Serialize(v)) = v

\* C19 (as stated): getOrSet calls made one after the other on a key that
\* was absent at first, with no expiry, eviction or deletion of the key in
\* between, invoke the loader exactly once and all return the same value,
\* the one the loader returned.
C19_SequentialSingleLoad ==
    [][ \A t \in BagToSet(tasks) :
           GosCompletes(t) =>
               loads' = 1 /\ returned'.r = LoaderValue(env.loader, 1)
      ]_vars

\* C19 (amended): the same, for a loader whose value is kept by the backend:
\* it is not undefined and serialization gives it back unchanged.
C19_SingleLoadOfStorable ==
    [][ \A t \in BagToSet(tasks) :
           GosCompletes(t) /\ Storable(LoaderValue(env.loader, 1)) =>
               loads' = 1 /\ returned'.r = LoaderValue(env.loader, 1)
      ]_vars

\* The second of two getOrSet calls made in turn has returned the value of
\* the first load, after a miss and a hit and one invocation of the loader.
C19_Witness ==
    /\ returned = Ret("getOrSet", 1, LoaderValue("counting", 1))
    /\ issued = 2 /\ loads = 1 /\ Quiet
    /\ stats.misses = 1 /\ stats.hits = 1 /\ stats.sets = 1 /\ stats.deletes = 0

\* C20: getOrSet has no single flight per key: a getOrSet that resumes from
\* a miss invokes the loader whatever other getOrSet of the same key is
\* under way, so two overlapping calls for an absent key both miss before
\* either stores, the loader runs twice, and the callers get different
\* values.
C20_NoSingleFlight ==
    [][ \A t \in Waiting("getOrSet", "got") :
           GosGot(t) /\ t.val = Undef =>
               /\ loads' = loads + 1
               /\ BagIn([t EXCEPT !.pc = "loaded",
                                  !.val = LoaderValue(env.loader, loads + 1)], tasks')
      ]_vars

\* Two overlapping getOrSet calls of one absent key have both missed and the
\* loader has run twice: one call has returned the second value and the
\* other is about to return the first.
C20_Witness ==
    /\ issued = 2 /\ loads = 2 /\ stats.misses = 2 /\ stats.hits = 0
    /\ returned = Ret("getOrSet", 1, LoaderValue("counting", 2))
    /\ \E u \in Waiting("getOrSet", "setdone") :
          u.key = 1 /\ u.val = LoaderValue("counting", 1)

\* The option names one of the five backends, in any letter case, or is
\* not given; it is an object that has a get and a set.
Recognised(sel) ==
    sel.type = "absent" \/ (sel.type = "string" /\ AdapterOf(ToLowerCase(sel)) # "none")
CustomAdapter(sel) == sel.type = "object" /\ sel.get /\ sel.set

\* C28: once the constructor has run, a recognised backend name has given
\* its adapter, a custom adapter object (one with get and set) has become
\* the backend, and every other selection has made the constructor throw
\* the 'Unsupported storage type' error.
C28_BackendSelection ==
    adapter # Unbuilt =>
        LET sel == options.storage
        IN CASE Recognised(sel) ->
                    adapter = Built(AdapterOf(ToLowerCase(ResolveStorage(sel))))
             [] CustomAdapter(sel) -> adapter = Built("options.storage")
             [] OTHER -> adapter = Thrown("Unsupported storage type")

C25_SelfHealingRead ==
    [][ /\ \A k \in env.keys :
              issued' = issued + 1 /\ GetCall(k) /\ k \in DOMAIN cache
                  /\ ~IsExpired(cache[k]) /\ k \notin DOMAIN storage =>
                  \E t \in BagToSet(tasks') :
                      t.op = "get" /\ t.key = k /\ t.pc = "read" /\ t.val = Undef
        /\ \A t \in Waiting("get", "read") :
              t.val = Undef /\ GetRead(t) =>
                  /\ returned' = Ret("get", t.key, Undef)
                  /\ stats'.misses = stats.misses + 1
                  /\ stats'.hits = stats.hits
                  /\ emitted' = <<>>
                  /\ t.key \notin DOMAIN cache'
                  /\ ~OMHas(accessOrder', t.key)
      ]_vars

\* get(k) has returned undefined for a key that had metadata and an
\* accessOrder entry but no value in the backend (the delete of the key's
\* expiration timer was under way): one miss is counted and both are gone.
C25_Witness ==
    \E k \in Keys :
        /\ returned = Ret("get", k, Undef)
        /\ emitted = <<>>
        /\ stats.misses = 1 /\ stats.hits = 0 /\ stats.deletes = 0
        /\ k \notin DOMAIN cache /\ ~OMHas(accessOrder, k)
        /\ \E t \in Waiting("timer", "ddel") : t.dk = k

\* The step completes the call of task t with the negative result r, does
\* not raise, and emits an 'error' event.
FailsSoftly(t, r) ==
    /\ returned' = Ret(t.op, t.key, r)
    /\ \E i \in DOMAIN emitted' : emitted'[i].e = "error"

\* C24: when the backend call of a set, get, has, delete or clear has
\* failed, the operation completes without raising, with its negative
\* result (undefined for get, false for the others), and an 'error' event
\* is emitted.
C24_ErrorsDoNotPropagate ==
    [][ /\ \A t \in Waiting("set", "store") :
              t.err /\ SetStored(t) => FailsSoftly(t, False)
        /\ \A t \in Waiting("get", "read") :
              t.err /\ GetRead(t) => FailsSoftly(t, Undef)
        /\ \A t \in Waiting("has", "hread") :
              t.err /\ HasRead(t) => FailsSoftly(t, False)
        /\ \A t \in Waiting("delete", "ddel") :
              t.err /\ DeleteDone(t) => FailsSoftly(t, False)
        /\ \A t \in Waiting("clear", "clr") :
              t.err /\ ClearDone(t) => FailsSoftly(t, False)
      ]_vars

\* C29: whenever no operation is in flight, a key is a member of the key
\* set of a tag exactly when the key has a metadata entry with that tag.
C29_TagIndexInvariant ==
    Quiet =>
        \A k \in Keys, tag \in Tags :
            (tag \in DOMAIN tagsMap /\ k \in Range(tagsMap[tag]))
                <=> (k \in DOMAIN cache /\ tag \in Range(cache[k].tags))

\* deserialize(serialize(v)) = v.
RoundTrips(v) == Deserialize(Serialize(v)) = v

\* C26 (as stated): a get(k) that completes while the last set(k, v) has
\* completed and nothing else has been done to k since (no overlapping or
\* later set, delete, eviction; no TTL) returns v, for every v with
\* deserialize(serialize(v)) = v.
C26_RoundTripOfAnyPair ==
    \A k \in Keys :
        returned.op = "get" /\ returned.k = k /\ k \in DOMAIN written
            /\ RoundTrips(written[k]) => returned.r = written[k]

\* C26 (amended): the same for every v with deserialize(serialize(v)) = v
\* whose serialized form is not undefined.
C26_RoundTrip ==
    \A k \in Keys :
        returned.op = "get" /\ returned.k = k /\ k \in DOMAIN written
            /\ Storable(written[k]) => returned.r = written[k]

\* Under the JSON pair a get has returned the value that the set before
\* it was given.
C26_Witness ==
    \E k \in Keys, v \in Values :
        /\ options.codec = "json"
        /\ returned = Ret("get", k, v)
        /\ k \in DOMAIN written /\ written[k] = v
        /\ stats.sets = 1 /\ stats.hits = 1 /\ stats.deletes = 0

\* C21: every get that completes adds one to exactly one of hits and
\* misses, hits when it returns a value and misses when it returns
\* undefined; so with H gets that returned a value and M that returned
\* undefined since the last reset, getStats() reports hits = H, misses = M
\* and hitRate = H / (H + M), and hitRate = 0 when H + M = 0.
C21_StatsAccuracy ==
    LET H == outcomes.hits
        M == outcomes.misses
        report == GetStats(St)
    IN /\ report.hits = H
       /\ report.misses = M
       /\ IF H + M = 0 \/ H = 0
          THEN report.hitRate = 0
          ELSE report.hitRate[1] * (H + M) = H * report.hitRate[2]

\* One hit and one miss (test/easycache.test.js:85-98), the miss of a get
\* that found its key expired and deleted it.
C21_Witness ==
    /\ returned = Ret("get", 1, Undef)
    /\ outcomes = [hits |-> 1, misses |-> 1]
    /\ stats.deletes = 1
    /\ stats.totalExpired = 0

C23_DeleteByTag ==
    [][ /\ \A tag \in Tags :
              issued' = issued + 1 /\ DeleteByTagCall(tag) /\ tag \notin DOMAIN tagsMap =>
                  returned' = Ret("deleteByTag", tag, False)
        /\ \A t \in Waiting("deleteByTag", "all") :
              DeleteByTagDone(t) =>
                  /\ \A k \in t.seen : k \notin DOMAIN cache' /\ k \notin DOMAIN storage'
                  /\ stats'.deletes - t.at = Cardinality(t.seen)
                  /\ returned' = Ret("deleteByTag", t.tag,
                                     IF stats'.deletes > t.at THEN True ELSE False)
                  /\ t.tag \notin DOMAIN tagsMap'
      ]_vars

\* C27: once destroy() has completed, no expiration timer is armed and the
\* periodic sweep is stopped, whatever was in flight when destroy was
\* called (set calls included); so nothing expires, is deleted or swept
\* afterwards.
C27_Shutdown == destroyed => armed = EmptyBag /\ ~sweep

\* C31: whenever no call, eviction or timeout callback is in flight (and no
\* backend write has failed), the keys with a metadata entry are the keys
\* the backend holds a value for, whatever overlapping set, delete and
\* clear calls and timer-driven deletes led there.
C31_StorageMetadataConsistency ==
    tasks = EmptyBag /\ broken = "no" =>
        \A k \in Keys : k \in DOMAIN cache <=> StorageGet(storage, k) # Undef

\* C35: a key is deleted once.  When deletes of the same entry overlap (an
\* expiration timer firing while a delete call, a lazy expiration or a
\* sweep of the key is in flight), one delete is counted and announced for
\* it: with entries made by set only and the statistics never reset, the
\* deletes counter (one per delete notification) never exceeds the number
\* of completed sets.
C35_ConcurrentDeleteOnce == stats.deletes <= stats.sets

\* C36: a get(k) that finds a metadata entry whose expiresAt has passed
\* deletes the key and returns undefined: of its steps only the completion
\* of the delete emits something, the one delete notification; the last
\* step counts one miss and no hit and emits nothing (no get, no expired
\* notification), and the key has no entry then.
C36_LazyExpirationInGet ==
    [][ /\ \A k \in Keys :
              issued' = issued + 1 /\ GetCall(k) /\ k \in DOMAIN cache /\ IsExpired(cache[k]) =>
                  /\ emitted' = <<>>
                  /\ returned' = NoReturn
                  /\ stats'.hits = stats.hits /\ stats'.misses = stats.misses
        /\ \A t \in Waiting("get", "dget") : DeleteGot(t) => emitted' = <<>>
        /\ \A t \in Waiting("get", "ddel") :
              DeleteDone(t) =>
                  /\ emitted' = <<Ev("delete", t.key, t.dval)>>
                  /\ t.key \notin DOMAIN cache'
                  /\ stats'.hits = stats.hits /\ stats'.misses = stats.misses
        /\ \A t \in Waiting("get", "dret") :
              GetExpired(t) =>
                  /\ returned' = Ret("get", t.key, Undef)
                  /\ emitted' = <<>>
                  /\ stats'.misses = stats.misses + 1 /\ stats'.hits = stats.hits
                  /\ t.key \notin DOMAIN cache'
      ]_vars

\* A set and a get have been called, and the get has completed as a miss
\* after deleting the key itself: no timeout callback has run.
C36_Witness ==
    /\ returned = Ret("get", 1, Undef)
    /\ issued = 2 /\ tasks = EmptyBag
    /\ stats.sets = 1 /\ stats.deletes = 1 /\ stats.misses = 1 /\ stats.totalExpired = 0
    /\ 1 \notin DOMAIN cache

\* The step leaves the metadata, the tag index, the timers, the LRU order
\* and the counters as they are.
EngineKept ==
    /\ cache' = cache /\ tagsMap' = tagsMap /\ accessOrder' = accessOrder
    /\ timers' = timers /\ armed' = armed /\ stats' = stats

\* C37: a set(k, ...) whose backend write fails leaves the engine as it was
\* before the call: neither the step that calls the backend nor the one
\* that handles the failure changes metadata, tag memberships, timers,
\* LRU order or counters, and the only thing emitted is the error
\* notification.
C37_FailedWriteKeepsState ==
    [][ /\ \A k \in Keys, v \in env.values, ttl \in env.ttls, tags \in env.tags :
              issued' = issued + 1 /\ SetCall(k, v, ttl, tags, "none") /\ WriteFails =>
                  EngineKept /\ emitted' = <<>>
        /\ \A t \in Waiting("set", "store") :
              SetStored(t) /\ t.err =>
                  /\ EngineKept
                  /\ \A i \in DOMAIN emitted' : emitted'[i].e = "error"
      ]_vars

\* C38: when a set(k, ...) completes by emitting the set notification, k
\* has a metadata entry: its own set never evicts k for a tag's limit.
C38_SuccessfulSetIsVisible ==
    \A i \in DOMAIN emitted : emitted[i].e = "set" => emitted[i].k \in DOMAIN cache

\* C34: the firing of an expiration timer for a key that is present counts
\* one totalExpired and emits one expired notification, whoever armed the
\* timer.  A timer of touch does so in the step that fires it; a timer of
\* set or get after its awaited delete, which has read the key's value
\* from the backend.
C34_NaturalExpiration ==
    [][ /\ \A h \in BagToSet(armed) :
              TimerFire(h) /\ h.kind = "touch" /\ h.key \in DOMAIN cache =>
                  /\ Len(emitted') = 1 /\ emitted'[1].e = "expired" /\ emitted'[1].k = h.key
                  /\ stats'.totalExpired = stats.totalExpired + 1
        /\ \A t \in Waiting("timer", "dret") :
              TimerExpired(t) /\ t.dval # Undef =>
                  /\ emitted' = <<Ev("expired", t.key, t.val)>>
                  /\ stats'.totalExpired = stats.totalExpired + 1
      ]_vars

\* C33: the firing of an expiration timer for a key that has no metadata
\* any more does nothing: the callback ends in the step that fires it, with
\* no backend call, no notification and no counter changed.
C33_TimerFiringGuard ==
    [][ \A h \in BagToSet(armed) :
            TimerFire(h) /\ h.key \notin DOMAIN cache =>
                /\ tasks' = tasks
                /\ emitted' = <<>>
                /\ stats' = stats
                /\ storage' = storage
      ]_vars

\* C32: a key has at most one armed expiration timer, and every armed timer
\* is the one the timers map records for its key.
C32_TimerUniqueness ==
    \A h \in BagToSet(armed) :
        /\ CopiesIn(h, armed) = 1
        /\ \A g \in BagToSet(armed) : g.key = h.key => g = h
        /\ h.key \in DOMAIN timers
        /\ timers[h.key] = h

\* C39: when no call or callback is in flight, a key has an armed
\* expiration timer exactly when it has metadata with a non-null expiresAt.
C39_TimerExpiryAgreement ==
    tasks = EmptyBag =>
        \A k \in Keys :
            (\E h \in BagToSet(armed) : h.key = k)
                <=> (k \in DOMAIN cache /\ cache[k].expiresAt # NoExpiry)

\* C40: hits + misses never exceeds totalAccesses, and equals it whenever
\* no get (called directly, by getByTag or by getOrSet) is in flight.
GetInFlight ==
    \E t \in BagToSet(tasks) :
        /\ t.op \in {"get", "getByTag", "getOrSet"}
        /\ t.pc \in {"read", "dget", "ddel", "dret"}

C40_AccessAccounting ==
    /\ stats.hits + stats.misses <= stats.totalAccesses
    /\ ~GetInFlight => stats.hits + stats.misses = stats.totalAccesses
====
